---------------------------- MODULE Spec2Model ----------------------------
(***************************************************************************)
(* A model of the resilience layer of ai-investor-pitch-advisor:           *)
(*   - RetryMechanismService (retry executor, backoff calculator and       *)
(*     circuit breaker registry), and                                      *)
(*   - DeadLetterQueueService (dead letter store, DLQ orchestrator and     *)
(*     retry scheduler over a Redis-like key-value store).                 *)
(*                                                                         *)
(* Strings that the code inspects (error messages, operation names) are    *)
(* sequences of word tokens; String.includes is containment of a           *)
(* contiguous run of tokens and toLowerCase maps each token.  Store keys   *)
(* are sequences of their ':'-separated segments.  Times are in            *)
(* milliseconds, as Date.now() gives them.                                 *)
(***************************************************************************)
EXTENDS Integers, Sequences, FiniteSets, TLC

VARIABLES
    now,              \* Date.now()
    circuitBreakers,  \* RetryMechanismService.circuitBreakers: name -> state
    thrChanged,       \* ghost: names whose failureThreshold was reconfigured
                      \* since the breaker last was Closed with failureCount 0
    lastCall,         \* ghost: the last direct registry call and its result
    trial,            \* ghost: recordSuccess calls since the breaker of opName
                      \* last became HalfOpen
    openedAt,         \* ghost: name -> the time of the operation failure that
                      \* last opened the breaker of the name
    pc,               \* position of the executeWithRetry call in progress
    call,             \* locals of the executeWithRetry call in progress
    opName,           \* the operation name the callers of this run pass
    calls,            \* ghost: number of executeWithRetry calls started
    spent,            \* ghost: number of failed attempts of all calls so far
    ticks             \* ghost: number of clock advances between operations

VARIABLES
    store,            \* the Redis keys: key -> [data, expireAt]
    originQueues,     \* the Redis lists the payloads are lpush-ed onto
    events,           \* number of events emitted, by <<event, queue>>
    configs,          \* DeadLetterQueueService.configs
    processing,       \* DeadLetterQueueService.processing
    nextId,           \* number of message ids generated so far
    apc, adm,         \* addToDLQ call in progress: position and locals
    spc, scan,        \* processRetryQueue runs: position and locals of each
    mpc, man,         \* retryMessage call in progress: position and locals
    dpc, del,         \* deleteMessage call in progress: position and locals
    faults,           \* ghost: number of failed store calls so far
    admissions,       \* ghost: what each addToDLQ call was given
    published,        \* ghost: lpush calls by path and message id
    lastOp,           \* ghost: the last completed DLQ operation
    timers,           \* the setInterval timers that are running
    destroyed,        \* ghost: onModuleDestroy has completed
    ops               \* ghost: number of DLQ operations started so far

retryVars ==
    <<circuitBreakers, thrChanged, lastCall, trial, openedAt, pc, call, spent, calls,
      opName>>
lifeVars == <<timers, destroyed>>
dlqVars ==
    <<lifeVars, store, originQueues, events, configs, processing, nextId, apc, adm,
      spc, scan, mpc, man, dpc, del, faults, admissions, published, lastOp,
      ops>>
vars == <<now, ticks, retryVars, dlqVars>>

---------------------------------------------------------------------------
(* Bounds of the model *)

\* largest maxAttempts a caller passes to executeWithRetry
MaxAttemptsBound == 6
\* failureCount is not bounded by the code: no call is started that could
\* take the number of failed attempts of all calls beyond this
MaxFailedAttempts == 7
\* number of executeWithRetry calls made one after the other
MaxCalls == 3
\* number of clock advances between operations
MaxTicks == 2
\* number of addToDLQ calls
MaxMessages == 3
\* number of store calls that fail
MaxFaults == 1
\* number of payloads pushed back onto origin queues
MaxPublishes == 2
\* largest number of DLQ operations started in a run (admissions, scans,
\* manual retries and deletions)
MaxOperations == 3
\* largest number of scan intervals that elapse in a run
MaxIntervals == 1
\* Math.random() is drawn from {0/RandDen, .., (RandDen-1)/RandDen}
RandDen == 4
RandomDraws == 0..(RandDen - 1)
\* the draw taken for the backoff delays of executeWithRetry
RetryDraws == {RandDen \div 2}

---------------------------------------------------------------------------
(* Strings *)

\* String.prototype.toLowerCase on one token
LowerTok(t) ==
    CASE t = "ECONNRESET" -> "econnreset"
      [] t = "ETIMEDOUT" -> "etimedout"
      [] t = "ECONNREFUSED" -> "econnrefused"
      [] t = "ENOTFOUND" -> "enotfound"
      [] t = "EAI_AGAIN" -> "eai_again"
      [] t = "Network" -> "network"
      [] t = "Error" -> "error"
      [] t = "Request" -> "request"
      [] t = "Service" -> "service"
      [] t = "Unavailable" -> "unavailable"
      [] t = "Internal" -> "internal"
      [] t = "Server" -> "server"
      [] t = "Bad" -> "bad"
      [] t = "Gateway" -> "gateway"
      [] t = "Timeout" -> "timeout"
      [] t = "Circuit" -> "circuit"
      [] t = "Validation" -> "validation"
      [] OTHER -> t

toLowerCase(s) == [i \in DOMAIN s |-> LowerTok(s[i])]

\* String.prototype.includes
includes(s, sub) ==
    \E i \in 1..(Len(s) - Len(sub) + 1) : SubSeq(s, i, i + Len(sub) - 1) = sub

retryableErrors ==
    << <<"ECONNRESET">>, <<"ETIMEDOUT">>, <<"ECONNREFUSED">>, <<"ENOTFOUND">>,
       <<"EAI_AGAIN">>, <<"Network", "Error">>, <<"Request", "timeout">>,
       <<"Service", "Unavailable">>, <<"Internal", "Server", "Error">>,
       <<"Bad", "Gateway">>, <<"Gateway", "Timeout">> >>

isRetryableError_dropLowerCase(message) ==
    \E k \in DOMAIN retryableErrors : includes(message, retryableErrors[k])

isRetryableError(message) ==
    LET errorMessage == toLowerCase(message)
    IN  \E k \in DOMAIN retryableErrors :
            includes(errorMessage, toLowerCase(retryableErrors[k]))

\* `Circuit breaker is open for ${operationName}`
CircuitOpenMessage(operationName) ==
    <<"Circuit", "breaker", "is", "open", "for">> \o operationName

---------------------------------------------------------------------------
(* Circuit breaker registry *)

DefaultFailureThreshold == 5
DefaultRecoveryTimeout == 60000
SuccessQuota == 3

NewCircuitBreakerState ==
    [status |-> "closed", failureCount |-> 0, successCount |-> 0,
     lastFailureTime |-> 0,
     failureThreshold |-> DefaultFailureThreshold,
     recoveryTimeout |-> DefaultRecoveryTimeout]

\* Map.set
MapSet(m, k, v) == [x \in DOMAIN m \cup {k} |-> IF x = k THEN v ELSE m[x]]

\* the registry after getOrCreateCircuitBreakerState(operationName)
getOrCreateCircuitBreakerState(cbs, operationName) ==
    IF operationName \in DOMAIN cbs THEN cbs
    ELSE MapSet(cbs, operationName, NewCircuitBreakerState)

isCircuitOpen_inclusive(cbs, operationName, t) ==
    IF operationName \notin DOMAIN cbs THEN [result |-> FALSE, cbs |-> cbs]
    ELSE LET state == cbs[operationName] IN
         IF state.status = "open"
         THEN IF t - state.lastFailureTime >= state.recoveryTimeout
              THEN [result |-> FALSE,
                    cbs |-> [cbs EXCEPT ![operationName].status = "half-open",
                                        ![operationName].successCount = 0]]
              ELSE [result |-> TRUE, cbs |-> cbs]
         ELSE [result |-> FALSE, cbs |-> cbs]

isCircuitOpen_neverRecovers(cbs, operationName, t) ==
    IF operationName \notin DOMAIN cbs THEN [result |-> FALSE, cbs |-> cbs]
    ELSE [result |-> cbs[operationName].status = "open", cbs |-> cbs]

\* isCircuitOpen at time t: what it returns and the registry it leaves
isCircuitOpen(cbs, operationName, t) ==
    IF operationName \notin DOMAIN cbs THEN [result |-> FALSE, cbs |-> cbs]
    ELSE LET state == cbs[operationName] IN
         IF state.status = "open"
         THEN IF t - state.lastFailureTime > state.recoveryTimeout
              THEN [result |-> FALSE,
                    cbs |-> [cbs EXCEPT ![operationName].status = "half-open",
                                        ![operationName].successCount = 0]]
              ELSE [result |-> TRUE, cbs |-> cbs]
         ELSE [result |-> FALSE, cbs |-> cbs]

recordCircuitBreakerSuccess_keepFailureCount(cbs, operationName) ==
    LET c == getOrCreateCircuitBreakerState(cbs, operationName)
        state == c[operationName]
    IN  IF state.status = "half-open"
        THEN IF state.successCount + 1 >= SuccessQuota
             THEN [c EXCEPT ![operationName].status = "closed",
                            ![operationName].successCount = 0]
             ELSE [c EXCEPT ![operationName].successCount = state.successCount + 1]
        ELSE c

recordCircuitBreakerSuccess_resetsFailures(cbs, operationName) ==
    LET c == getOrCreateCircuitBreakerState(cbs, operationName)
        state == c[operationName]
    IN  IF state.status = "half-open"
        THEN IF state.successCount + 1 >= SuccessQuota
             THEN [c EXCEPT ![operationName].status = "closed",
                            ![operationName].failureCount = 0,
                            ![operationName].successCount = 0]
             ELSE [c EXCEPT ![operationName].successCount = state.successCount + 1]
        ELSE IF state.status = "closed"
        THEN [c EXCEPT ![operationName].failureCount = 0]
        ELSE c

recordCircuitBreakerSuccess(cbs, operationName) ==
    LET c == getOrCreateCircuitBreakerState(cbs, operationName)
        state == c[operationName]
    IN  IF state.status = "half-open"
        THEN IF state.successCount + 1 >= SuccessQuota
             THEN [c EXCEPT ![operationName].status = "closed",
                            ![operationName].failureCount = 0,
                            ![operationName].successCount = 0]
             ELSE [c EXCEPT ![operationName].successCount = state.successCount + 1]
        ELSE c

recordCircuitBreakerFailure_offByOne(cbs, operationName, t) ==
    LET c == getOrCreateCircuitBreakerState(cbs, operationName)
        state == c[operationName]
        counted == [c EXCEPT ![operationName].failureCount = state.failureCount + 1,
                             ![operationName].lastFailureTime = t]
    IN  IF state.status = "closed" /\ state.failureCount + 1 > state.failureThreshold
        THEN [counted EXCEPT ![operationName].status = "open"]
        ELSE IF state.status = "half-open"
        THEN [counted EXCEPT ![operationName].status = "open",
                             ![operationName].successCount = 0]
        ELSE counted

recordCircuitBreakerFailure_keepSuccessCount(cbs, operationName, t) ==
    LET c == getOrCreateCircuitBreakerState(cbs, operationName)
        state == c[operationName]
        counted == [c EXCEPT ![operationName].failureCount = state.failureCount + 1,
                             ![operationName].lastFailureTime = t]
    IN  IF state.status = "closed" /\ state.failureCount + 1 >= state.failureThreshold
        THEN [counted EXCEPT ![operationName].status = "open"]
        ELSE IF state.status = "half-open"
        THEN [counted EXCEPT ![operationName].status = "open"]
        ELSE counted

recordCircuitBreakerFailure(cbs, operationName, t) ==
    LET c == getOrCreateCircuitBreakerState(cbs, operationName)
        state == c[operationName]
        counted == [c EXCEPT ![operationName].failureCount = state.failureCount + 1,
                             ![operationName].lastFailureTime = t]
    IN  IF state.status = "closed" /\ state.failureCount + 1 >= state.failureThreshold
        THEN [counted EXCEPT ![operationName].status = "open"]
        ELSE IF state.status = "half-open"
        THEN [counted EXCEPT ![operationName].status = "open",
                             ![operationName].successCount = 0]
        ELSE counted

\* options is a Partial<CircuitBreakerOptions>; 0 stands for an absent (or
\* falsy) field, which `if (options.failureThreshold)` skips
configureCircuitBreaker(cbs, operationName, options) ==
    LET c == getOrCreateCircuitBreakerState(cbs, operationName)
        c1 == IF options.failureThreshold # 0
              THEN [c EXCEPT ![operationName].failureThreshold = options.failureThreshold]
              ELSE c
    IN  IF options.recoveryTimeout # 0
        THEN [c1 EXCEPT ![operationName].recoveryTimeout = options.recoveryTimeout]
        ELSE c1

---------------------------------------------------------------------------
(* Backoff calculator *)

RECURSIVE Pow(_, _)
\* Math.pow for a whole base and exponent
Pow(b, e) == IF e <= 0 THEN 1 ELSE b * Pow(b, e - 1)

Min(a, b) == IF a <= b THEN a ELSE b
Max(a, b) == IF a >= b THEN a ELSE b

\* a fractional backoffFactor is the quotient of the fields backoffFactor and
\* backoffFactorDen of the policy; without the second field it is whole
FactorDen(config) ==
    IF "backoffFactorDen" \in DOMAIN config THEN config.backoffFactorDen ELSE 1

\* config.baseDelay * Math.pow(config.backoffFactor, attempt - 1), as the
\* fraction num / den
Uncapped(attempt, config) ==
    [num |-> config.baseDelay * Pow(config.backoffFactor, attempt - 1),
     den |-> Pow(FactorDen(config), attempt - 1)]

\* delay + (Math.random() - 0.5) * 2 * (delay * 0.25) with Math.random() =
\* r / RandDen, which is delay * (3*RandDen + 2*r) / (4*RandDen)
Jitter(delay, r) ==
    [num |-> delay.num * (3 * RandDen + 2 * r), den |-> delay.den * 4 * RandDen]

\* Math.max(0, Math.floor(delay))
FloorNonNegative(delay) == Max(0, delay.num \div delay.den)

calculateDelay_noCap(attempt, config, r) ==
    LET uncapped == Uncapped(attempt, config)
    IN  FloorNonNegative(IF config.jitter THEN Jitter(uncapped, r) ELSE uncapped)

calculateDelay(attempt, config, r) ==
    LET uncapped == Uncapped(attempt, config)
        capped == IF uncapped.num <= config.maxDelay * uncapped.den
                  THEN uncapped
                  ELSE [num |-> config.maxDelay, den |-> 1]
    IN  FloorNonNegative(IF config.jitter THEN Jitter(capped, r) ELSE capped)

---------------------------------------------------------------------------
(* Dead letter store: the Redis commands DeadLetterQueueService uses *)

Queues == {"emails", "reports"}

Undefined == <<"undefined">>
Null == <<"null">>
InvalidDate == <<"invalid">>

\* Date.prototype.toISOString / Date.prototype.toJSON
toISOString(d) == <<"iso", d[2]>>

\* new Date(x) for an ISO string, or for undefined (an Invalid Date)
NewDate(x) == IF x[1] = "iso" THEN <<"date", x[2]>> ELSE InvalidDate

\* a <= b on Dates: false when either is an Invalid Date (NaN)
DateLE(a, b) == a[1] = "date" /\ b[1] = "date" /\ a[2] <= b[2]

\* JSON.stringify of a FailedMessage: a Date becomes its ISO string and an
\* undefined field is left out (read back as undefined); JSON.parse does not
\* turn the strings back into Dates
DateToJSON(d) == IF d[1] = "date" THEN toISOString(d) ELSE d

StringifyMessage(m) ==
    [m EXCEPT !.failedAt = DateToJSON(m.failedAt),
              !.nextRetryAt = DateToJSON(m.nextRetryAt)]

\* JSON.stringify of the opaque payload
StringifyPayload(message) == <<"json", message>>

\* keys are the sequences of their ':'-separated segments
ActiveKey(queue, id) == <<"dlq", queue, id>>
PermanentKey(queue, id) == <<"dlq", "permanent", queue, id>>
RetryKey(queue, id) == <<"dlq", queue, "retry", id>>

RECURSIVE GlobMatch(_, _)
\* KEYS pattern matching: '*' stands for any run of characters, here for one
\* or more whole segments (no segment is empty)
GlobMatch(pattern, key) ==
    IF pattern = << >> THEN key = << >>
    ELSE IF Head(pattern) = "*"
    THEN \E n \in 1..Len(key) :
            GlobMatch(Tail(pattern), SubSeq(key, n + 1, Len(key)))
    ELSE /\ key # << >>
         /\ Head(key) = Head(pattern)
         /\ GlobMatch(Tail(pattern), Tail(key))

\* SETEX key seconds value, at time t
Setex(st, key, seconds, data, t) ==
    MapSet(st, key, [data |-> data, expireAt |-> t + seconds * 1000])

\* GET key: null (found = FALSE) when the key is absent
Get(st, key) ==
    IF key \in DOMAIN st THEN [found |-> TRUE, data |-> st[key].data]
    ELSE [found |-> FALSE, data |-> Null]

\* DEL key: the store it leaves, and the number of keys removed
Del(st, key) ==
    [store |-> [k \in DOMAIN st \ {key} |-> st[k]],
     deleted |-> IF key \in DOMAIN st THEN 1 ELSE 0]

\* KEYS pattern
Keys(st, pattern) == { k \in DOMAIN st : GlobMatch(pattern, k) }

\* LPUSH key value
Lpush(qs, queue, value) == [qs EXCEPT ![queue] = <<value>> \o qs[queue]]

\* the keys whose TTL has not run out at time t
Unexpired(st, t) == [k \in { x \in DOMAIN st : st[x].expireAt > t } |-> st[k]]

---------------------------------------------------------------------------
(* DLQ orchestrator: configuration *)

defaultConfig ==
    [maxRetries |-> 5, baseDelay |-> 1000, maxDelay |-> 3600000,
     backoffFactor |-> 2, enableJitter |-> TRUE, retentionPeriod |-> 7,
     alertThreshold |-> 10]

\* { ...a, ...b }
Spread(a, b) ==
    [f \in DOMAIN a \cup DOMAIN b |-> IF f \in DOMAIN b THEN b[f] ELSE a[f]]

NoOverride == [x \in {} |-> 0]

\* this.configs.get(queue), spread: nothing when the queue is not configured
RegisteredConfig(cfgs, queue) == IF queue \in DOMAIN cfgs THEN cfgs[queue] ELSE NoOverride

\* retentionPeriod * 24 * 60 * 60
RetentionSeconds(config) == config.retentionPeriod * 24 * 60 * 60

\* calculateNextRetryTime at time t with Math.random() = r / RandDen
calculateNextRetryTime(retryCount, config, r, t) ==
    LET uncapped == config.baseDelay * Pow(config.backoffFactor, retryCount)
        capped == Min(uncapped, config.maxDelay)
        delay == IF config.enableJitter
                 THEN (capped * (3 * RandDen + 2 * r)) \div (4 * RandDen)
                 ELSE capped
    IN  <<"date", t + delay>>

\* generateMessageId: the n-th id generated
generateMessageId(n) == ToString(n)

EventNames ==
    {"dlq.message.added", "dlq.retry.successful", "dlq.message.permanent",
     "dlq.threshold.exceeded", "dlq.message.manual_retry", "dlq.message.deleted"}

\* eventEmitter.emit(name, {queue, ...})
Emit(ev, name, queue) == [ev EXCEPT ![<<name, queue>>] = @ + 1]

\* the processRetryQueue runs that may be in progress at once
Scanners == {"scanA", "scanB"}

\* what an awaited store call hands to its awaiter: its value, or a rejection
Reply(ok, value) == [ok |-> ok, value |-> IF ok THEN value ELSE Null]

IdleAdmission ==
    [queue |-> "", id |-> "", failedMessage |-> Null, dlqConfig |-> defaultConfig,
     res |-> Null, pre |-> Null]

IdleScan ==
    [keys |-> {}, key |-> << >>, retryInfo |-> Null, failedMessage |-> Null,
     res |-> Null, faulted |-> FALSE, pre |-> Null]

IdleManual ==
    [queue |-> "", id |-> "", failedMessage |-> Null, res |-> Null, pre |-> Null]

IdleDelete == [queue |-> "", id |-> "", res |-> Null, pre |-> Null]

NoOp == [op |-> "none", queue |-> "", id |-> "", outcome |-> "none",
         result |-> FALSE, faulted |-> FALSE, at |-> 0, nth |-> 0, pre |-> Null]

\* the state an operation starts from, kept to state what the operation did
Snapshot == [store |-> store, originQueues |-> originQueues, events |-> events,
             published |-> published]

\* the timers the constructor starts
initializeDLQProcessing == {"processRetryQueue", "cleanupExpiredMessages"}

DlqInit ==
    /\ store = << >>
    /\ originQueues = [q \in Queues |-> << >>]
    /\ events = [e \in EventNames \X Queues |-> 0]
    /\ configs = << >>
    /\ processing = {}
    /\ nextId = 0
    /\ apc = "idle"
    /\ adm = IdleAdmission
    /\ spc = [s \in Scanners |-> "idle"]
    /\ scan = [s \in Scanners |-> IdleScan]
    /\ mpc = "idle"
    /\ man = IdleManual
    /\ dpc = "idle"
    /\ del = IdleDelete
    /\ faults = 0
    /\ admissions = << >>
    /\ published = << >>
    /\ lastOp = NoOp
    /\ ops = 0
    /\ timers = initializeDLQProcessing
    /\ destroyed = FALSE

---------------------------------------------------------------------------
(* Retry executor *)

DefaultMaxAttempts == 3
DefaultBaseDelay == 1000
DefaultMaxDelay == 30000
DefaultBackoffFactor == 2

defaultRetryOptions ==
    [maxAttempts |-> DefaultMaxAttempts, baseDelay |-> DefaultBaseDelay,
     maxDelay |-> DefaultMaxDelay, backoffFactor |-> DefaultBackoffFactor,
     jitter |-> TRUE, retryCondition |-> "none"]

\* the operation names callers use; the second contains a retryable phrase
OperationNames == { <<"unknown_operation">>, <<"gateway", "timeout", "check">> }

\* the errors an operation throws
ErrorMessages == { <<"504", "gateway", "timeout">>, <<"Validation", "failed">> }

\* caller-supplied retryCondition functions ("none": the option is absent)
RetryConditions == {"none", "acceptAll", "rejectAll"}

retryCondition(cond, message) ==
    CASE cond = "acceptAll" -> TRUE
      [] cond = "rejectAll" -> FALSE
      [] OTHER -> TRUE

NoError == << >>

IdleCall ==
    [name |-> << >>, config |-> defaultRetryOptions, attempt |-> 0,
     invocations |-> 0, sleeps |-> 0, rejections |-> 0, lastError |-> NoError,
     firstError |-> NoError, lastOpError |-> NoError, lastFailed |-> 0,
     allRetryable |-> TRUE,
     fresh |-> FALSE, delay |-> 0, thrown |-> NoError, startedAt |-> 0]

shouldRetry_stopsEarly(c, err) ==
    /\ c.attempt + 1 < c.config.maxAttempts
    /\ ~(c.config.retryCondition # "none" /\ ~retryCondition(c.config.retryCondition, err))
    /\ isRetryableError(err)

shouldRetry_ignoreRetryable(c, err) ==
    /\ c.attempt # c.config.maxAttempts
    /\ ~(c.config.retryCondition # "none" /\ ~retryCondition(c.config.retryCondition, err))

shouldRetry_ignoreCondition(c, err) ==
    /\ c.attempt # c.config.maxAttempts
    /\ isRetryableError(err)

\* the three checks of the catch block (lines 59-72): whether the loop goes
\* on to the backoff delay after error `err` of attempt c.attempt
shouldRetry(c, err) ==
    /\ c.attempt # c.config.maxAttempts
    /\ ~(c.config.retryCondition # "none" /\ ~retryCondition(c.config.retryCondition, err))
    /\ isRetryableError(err)

\* the catch block of executeWithRetry (lines 53-99) for error `err` of the
\* current attempt: the position, locals and registry it leaves
catchError(c, cbs, t, err, r) ==
    LET cbs1 == recordCircuitBreakerFailure(cbs, c.name, t)
        c1 == [c EXCEPT !.lastError = err]
    IN  IF shouldRetry(c1, err)
        THEN [pc |-> "sleeping", cbs |-> cbs1,
              call |-> [c1 EXCEPT !.delay = calculateDelay(c.attempt, c.config, r),
                                  !.sleeps = c.sleeps + 1]]
        ELSE [pc |-> "thrown", cbs |-> cbs1,
              call |-> [c1 EXCEPT !.thrown = err]]

\* the start of one loop iteration (lines 40-47): the breaker check, then
\* either the operation is invoked or the circuit-open error is thrown into
\* the catch block
startAttempt_skipBreaker(c, cbs, t, r) ==
    [pc |-> "running", cbs |-> cbs,
     call |-> [c EXCEPT !.invocations = c.invocations + 1]]

startAttempt(c, cbs, t, r) ==
    LET chk == isCircuitOpen(cbs, c.name, t)
    IN  IF chk.result
        THEN catchError([c EXCEPT !.rejections = c.rejections + 1],
                        chk.cbs, t, CircuitOpenMessage(c.name), r)
        ELSE [pc |-> "running", cbs |-> chk.cbs,
              call |-> [c EXCEPT !.invocations = c.invocations + 1]]

\* ghost bookkeeping of thrChanged after the registry went from cbs to cbs1
nextThrChanged(cbs, cbs1, tc) ==
    { n \in DOMAIN cbs1 :
        /\ ~(cbs1[n].status = "closed" /\ cbs1[n].failureCount = 0)
        /\ \/ n \in tc
           \/ n \in DOMAIN cbs /\ cbs[n].failureThreshold # cbs1[n].failureThreshold }

NoCall == [op |-> "none", result |-> FALSE, at |-> 0,
           pre |-> NewCircuitBreakerState, trialBefore |-> 0]

\* the state a call finds: the breaker of the name, or the one that
\* getOrCreateCircuitBreakerState would create
Before(cbs, name) == IF name \in DOMAIN cbs THEN cbs[name] ELSE NewCircuitBreakerState

\* executeWithRetry(operation, options, operationName), up to the first await
ExecuteWithRetry(name, options) ==
    /\ pc \in {"idle", "returned", "thrown"}
    /\ calls < MaxCalls
    /\ calls' = calls + 1
    /\ spent + options.maxAttempts <= MaxFailedAttempts
    /\ \E r \in RetryDraws :
         LET c == [IdleCall EXCEPT !.name = name,
                                   !.config = options,
                                   !.attempt = 1,
                                   !.startedAt = now,
                                   !.fresh = name \notin DOMAIN circuitBreakers]
             s == startAttempt(c, circuitBreakers, now, r)
         IN  /\ pc' = s.pc
             /\ call' = s.call
             /\ circuitBreakers' = s.cbs
             /\ thrChanged' = nextThrChanged(circuitBreakers, s.cbs, thrChanged)
             /\ spent' = spent + s.call.rejections
    /\ UNCHANGED <<now, ticks, lastCall, trial, openedAt, opName>>
    /\ UNCHANGED dlqVars

\* the awaited operation resolves (lines 47-52)
OperationSucceeds ==
    /\ pc = "running"
    /\ pc' = "returned"
    /\ circuitBreakers' = recordCircuitBreakerSuccess(circuitBreakers, call.name)
    /\ thrChanged' = nextThrChanged(circuitBreakers, circuitBreakers', thrChanged)
    /\ UNCHANGED <<now, ticks, lastCall, trial, openedAt, call, spent, opName, calls>>
    /\ UNCHANGED dlqVars

\* ghost bookkeeping of the errors the operation threw in this call:
\* the first one, the invocation that threw the latest one, and whether all
\* of them were retryable for this policy
noteError(c, err) ==
    [c EXCEPT !.firstError = IF c.firstError = NoError THEN err ELSE c.firstError,
              !.lastOpError = err,
              !.lastFailed = c.invocations,
              !.allRetryable = c.allRetryable /\ isRetryableError(err)
                                  /\ retryCondition(c.config.retryCondition, err)]

\* the awaited operation rejects with err (lines 53-99)
OperationThrows(err) ==
    /\ pc = "running"
    /\ \E r \in RetryDraws :
         LET s == catchError(noteError(call, err), circuitBreakers, now, err, r)
         IN  /\ pc' = s.pc
             /\ call' = s.call
             /\ circuitBreakers' = s.cbs
             /\ thrChanged' = nextThrChanged(circuitBreakers, s.cbs, thrChanged)
             /\ openedAt' = IF /\ s.cbs[call.name].status = "open"
                               /\ Before(circuitBreakers, call.name).status # "open"
                            THEN MapSet(openedAt, call.name, now)
                            ELSE openedAt
    /\ spent' = spent + 1
    /\ UNCHANGED <<now, ticks, lastCall, trial, opName, calls>>
    /\ UNCHANGED dlqVars

\* the backoff timer fires (line 98) and the next iteration starts
DelayElapsed ==
    /\ pc = "sleeping"
    /\ now' = now + call.delay
    /\ \E r \in RetryDraws :
         LET s == startAttempt([call EXCEPT !.attempt = call.attempt + 1],
                               circuitBreakers, now', r)
         IN  /\ pc' = s.pc
             /\ call' = s.call
             /\ circuitBreakers' = s.cbs
             /\ thrChanged' = nextThrChanged(circuitBreakers, s.cbs, thrChanged)
             /\ spent' = spent + (s.call.rejections - call.rejections)
    /\ UNCHANGED <<ticks, lastCall, trial, openedAt, opName, calls>>
    /\ UNCHANGED dlqVars

\* time passes between two calls
TickSteps == {DefaultRecoveryTimeout, DefaultRecoveryTimeout + 1}

\* (the clock is read only while some breaker is open)
Tick(d) ==
    /\ pc \in {"idle", "returned", "thrown"}
    /\ \E n \in DOMAIN circuitBreakers : circuitBreakers[n].status = "open"
    /\ ticks < MaxTicks
    /\ now' = now + d
    /\ ticks' = ticks + 1
    /\ UNCHANGED retryVars
    /\ UNCHANGED dlqVars

SlowBackoff ==
    [baseDelay |-> 40000, maxDelay |-> 100000, backoffFactor |-> 2, jitter |-> FALSE]

\* the options callers pass: every retryCondition with the default backoff,
\* and the slow backoff (its delays outlast the default recovery timeout) with
\* enough attempts to open a breaker within one call
RetryOptionSets ==
    { [defaultRetryOptions EXCEPT !.maxAttempts = n, !.retryCondition = rc] :
         n \in 1..MaxAttemptsBound, rc \in RetryConditions }
    \cup
    { [maxAttempts |-> n, baseDelay |-> SlowBackoff.baseDelay,
       maxDelay |-> SlowBackoff.maxDelay, backoffFactor |-> SlowBackoff.backoffFactor,
       jitter |-> SlowBackoff.jitter, retryCondition |-> "none"] :
         n \in {MaxAttemptsBound} }

RetryStart ==
    /\ now = 0
    /\ ticks = 0
    /\ circuitBreakers = << >>
    /\ thrChanged = {}
    /\ lastCall = NoCall
    /\ trial = 0
    /\ openedAt = << >>
    /\ pc = "idle"
    /\ call = IdleCall
    /\ spent = 0
    /\ calls = 0

RetryInit ==
    /\ RetryStart
    /\ opName \in OperationNames
    /\ DlqInit

RetryNext ==
    \/ \E options \in RetryOptionSets : ExecuteWithRetry(opName, options)
    \/ OperationSucceeds
    \/ \E err \in ErrorMessages : OperationThrows(err)
    \/ DelayElapsed
    \/ \E d \in TickSteps : Tick(d)

RetrySpec == RetryInit /\ [][RetryNext]_vars

---------------------------------------------------------------------------
(* executeWithRetry called while a breaker is open: the callers come back   *)
(* before the recovery timeout has elapsed as well as after it.             *)

\* the time between two calls: two thirds of the default recovery timeout,
\* or just more than all of it
RecoverySteps == {(2 * DefaultRecoveryTimeout) \div 3, DefaultRecoveryTimeout + 1}

RecoveryNext ==
    \/ \E options \in RetryOptionSets : ExecuteWithRetry(opName, options)
    \/ OperationSucceeds
    \/ \E err \in ErrorMessages : OperationThrows(err)
    \/ DelayElapsed
    \/ \E d \in RecoverySteps : Tick(d)

RecoverySpec == RetryInit /\ [][RecoveryNext]_vars

---------------------------------------------------------------------------
(* RetryUtils.withCircuitBreaker called repeatedly for one operation name. *)
(* circuitBreakers is the registry of the service instance that the call   *)
(* in progress (or the last call) works with.                              *)

\* the options the callers of withCircuitBreaker pass: a field left out is 0
WrapperOptionSets ==
    { [failureThreshold |-> 1, recoveryTimeout |-> 0],
      [failureThreshold |-> 2, recoveryTimeout |-> 30000],
      [failureThreshold |-> 0, recoveryTimeout |-> 0] }

\* RetryUtils.withCircuitBreaker(operation, operationName, options), up to
\* the first await
withCircuitBreaker(name, options) ==
    /\ pc \in {"idle", "returned", "thrown"}
    /\ calls < MaxCalls
    /\ calls' = calls + 1
    /\ spent + 1 <= MaxFailedAttempts
    /\ \E r \in RetryDraws :
         LET retryService == << >>
             configured == configureCircuitBreaker(retryService, name, options)
             c == [IdleCall EXCEPT !.name = name,
                                   !.config = [defaultRetryOptions EXCEPT
                                                  !.maxAttempts = 1,
                                                  !.retryCondition = "none"],
                                   !.attempt = 1,
                                   !.startedAt = now]
             s == startAttempt(c, configured, now, r)
         IN  /\ pc' = s.pc
             /\ call' = s.call
             /\ circuitBreakers' = s.cbs
             /\ thrChanged' = {}
             /\ spent' = spent + s.call.rejections
    /\ UNCHANGED <<now, ticks, lastCall, trial, openedAt, opName>>
    /\ UNCHANGED dlqVars

\* time passes between two calls of withCircuitBreaker
Pause(d) ==
    /\ pc \in {"returned", "thrown"}
    /\ ticks < MaxTicks
    /\ now' = now + d
    /\ ticks' = ticks + 1
    /\ UNCHANGED retryVars
    /\ UNCHANGED dlqVars

WrapperNext ==
    \/ \E options \in WrapperOptionSets : withCircuitBreaker(opName, options)
    \/ OperationSucceeds
    \/ \E err \in ErrorMessages : OperationThrows(err)
    \/ \E d \in RecoverySteps : Pause(d)

WrapperSpec == RetryInit /\ [][WrapperNext]_vars

---------------------------------------------------------------------------
(* The circuit breaker registry called directly: isCircuitOpen,            *)
(* recordCircuitBreakerSuccess and recordCircuitBreakerFailure as the      *)
(* concurrent executeWithRetry calls of one operation name make them, in   *)
(* any order, and configureCircuitBreaker.                                 *)

BreakerOptionSets ==
    { [failureThreshold |-> 1, recoveryTimeout |-> 0],
      [failureThreshold |-> 3, recoveryTimeout |-> 0],
      [failureThreshold |-> 0, recoveryTimeout |-> 30000] }

Registry(op, result, cbs1) ==
    /\ pc = "idle"
    /\ circuitBreakers' = cbs1
    /\ thrChanged' = nextThrChanged(circuitBreakers, cbs1, thrChanged)
    /\ lastCall' = [op |-> op, result |-> result, at |-> now,
                    pre |-> Before(circuitBreakers, opName), trialBefore |-> trial]
    /\ trial' = IF opName \in DOMAIN cbs1 /\ cbs1[opName].status = "half-open"
                THEN (IF op = "recordSuccess" THEN trial + 1
                      ELSE IF Before(circuitBreakers, opName).status = "half-open"
                      THEN trial ELSE 0)
                ELSE 0
    /\ UNCHANGED <<now, ticks, openedAt, pc, call, spent, calls, opName>>

IsCircuitOpenCall ==
    LET chk == isCircuitOpen(circuitBreakers, opName, now)
    IN  Registry("isCircuitOpen", chk.result, chk.cbs)
    /\ UNCHANGED dlqVars

RecordSuccessCall ==
    Registry("recordSuccess", FALSE, recordCircuitBreakerSuccess(circuitBreakers, opName))
    /\ UNCHANGED dlqVars

RecordFailureCall ==
    /\ Before(circuitBreakers, opName).failureCount < MaxFailedAttempts
    /\ Registry("recordFailure", FALSE,
                recordCircuitBreakerFailure(circuitBreakers, opName, now))
    /\ UNCHANGED dlqVars

ConfigureCall(options) ==
    Registry("configure", FALSE,
             configureCircuitBreaker(circuitBreakers, opName, options))
    /\ UNCHANGED dlqVars

BreakerNext ==
    \/ IsCircuitOpenCall
    \/ RecordSuccessCall
    \/ RecordFailureCall
    \/ \E options \in BreakerOptionSets : ConfigureCall(options)
    \/ \E d \in TickSteps \cup {30000} : Tick(d)

BreakerSpec == RetryInit /\ [][BreakerNext]_vars

---------------------------------------------------------------------------
(* The backoff calculator called for the successive attempts of one call,   *)
(* as the loop of executeWithRetry calls it, under one policy.              *)

\* the largest attempt number the delay is calculated for
MaxBackoffAttempts == 7

\* the policies: the default one, one that is slower, one with a base delay
\* that is no multiple of four and one with the fractional factor 3/2, each
\* with and without jitter
BackoffPolicies ==
    { [baseDelay |-> p[1], maxDelay |-> p[2], backoffFactor |-> p[3],
       backoffFactorDen |-> p[4], jitter |-> j,
       maxAttempts |-> MaxBackoffAttempts, retryCondition |-> "none"] :
         p \in { <<DefaultBaseDelay, DefaultMaxDelay, DefaultBackoffFactor, 1>>,
                 <<SlowBackoff.baseDelay, SlowBackoff.maxDelay,
                   SlowBackoff.backoffFactor, 1>>,
                 <<1001, DefaultMaxDelay, 3, 1>>,
                 <<DefaultBaseDelay, 6000, 3, 2>> },
         j \in BOOLEAN }

\* const delay = this.calculateDelay(attempt, config) for the next attempt
CalculateDelayCall(r) ==
    /\ pc = "idle"
    /\ call.attempt < MaxBackoffAttempts
    /\ LET attempt == call.attempt + 1
           delay == calculateDelay(attempt, call.config, r)
       IN  /\ call' = [call EXCEPT !.attempt = attempt, !.delay = delay]
           /\ lastCall' = [op |-> "calculateDelay", attempt |-> attempt,
                           draw |-> r, delay |-> delay, previous |-> call.delay]
    /\ UNCHANGED <<now, ticks, circuitBreakers, thrChanged, trial, openedAt, pc, spent,
                   calls, opName>>
    /\ UNCHANGED dlqVars

BackoffStart ==
    /\ now = 0
    /\ ticks = 0
    /\ circuitBreakers = << >>
    /\ thrChanged = {}
    /\ lastCall = NoCall
    /\ trial = 0
    /\ openedAt = << >>
    /\ pc = "idle"
    /\ \E config \in BackoffPolicies : call = [IdleCall EXCEPT !.config = config]
    /\ spent = 0
    /\ calls = 0
    /\ opName = <<"unknown_operation">>
    /\ DlqInit

BackoffNext == \E r \in RandomDraws : CalculateDelayCall(r)

BackoffSpec == BackoffStart /\ [][BackoffNext]_vars

---------------------------------------------------------------------------
(* DLQ orchestrator: addToDLQ.  A store command takes effect when it is    *)
(* issued; a step of a call runs from the reply of one awaited command to  *)
(* the issue of the next one.                                              *)

\* the outcomes an issued store command can have: a command can be rejected
\* while the budget of store failures lasts
Oks == IF faults < MaxFaults THEN BOOLEAN ELSE {TRUE}

Faulted(ok) == faults' = IF ok THEN faults ELSE faults + 1

\* Math.ceil(ms / 1000)
CeilSeconds(ms) == (ms + 999) \div 1000

\* the (currentRetryCount, config) pairs the callers pass
AdmissionInputs ==
    { [currentRetryCount |-> 0, config |-> NoOverride],
      [currentRetryCount |-> 0, config |-> [maxRetries |-> 1]],
      [currentRetryCount |-> 1, config |-> [maxRetries |-> 1]] }

Completed(op, queue, id, outcome, result, faulted, pre) ==
    [op |-> op, queue |-> queue, id |-> id, outcome |-> outcome,
     result |-> result, faulted |-> faulted, at |-> now, nth |-> ops,
     pre |-> pre]

\* the retry-schedule pointer scheduleRetry writes
RetryInfo(failedMessage) ==
    [messageId |-> failedMessage.id, queue |-> failedMessage.queue,
     nextRetryAt |-> IF failedMessage.nextRetryAt[1] = "date"
                     THEN toISOString(failedMessage.nextRetryAt)
                     ELSE Undefined,
     retryCount |-> failedMessage.retryCount]

\* the store after scheduleRetry's setex
scheduleRetry(st, failedMessage, config, t) ==
    Setex(st, RetryKey(failedMessage.queue, failedMessage.id),
          CeilSeconds(config.maxDelay), RetryInfo(failedMessage), t)

\* the branch addToDLQ takes
ShouldScheduleRetry_always(currentRetryCount, dlqConfig) == TRUE

ShouldScheduleRetry(currentRetryCount, dlqConfig) ==
    currentRetryCount < dlqConfig.maxRetries

\* addToDLQ up to its first awaited store command: the setex of scheduleRetry
\* or the first setex of moveToPermanentDLQ
addToDLQ(queue, currentRetryCount, config, r, ok) ==
    LET dlqConfig ==
            Spread(Spread(defaultConfig, RegisteredConfig(configs, queue)), config)
        messageId == generateMessageId(nextId + 1)
        retry == ShouldScheduleRetry(currentRetryCount, dlqConfig)
        failedMessage ==
            [id |-> messageId, queue |-> queue, message |-> [id |-> nextId + 1],
             error |-> "err", retryCount |-> currentRetryCount,
             maxRetries |-> dlqConfig.maxRetries, failedAt |-> <<"date", now>>,
             nextRetryAt |-> IF retry
                             THEN calculateNextRetryTime(currentRetryCount,
                                                         dlqConfig, r, now)
                             ELSE Undefined]
    IN  /\ apc = "idle"
        /\ nextId < MaxMessages
        /\ nextId' = nextId + 1
        /\ adm' = [queue |-> queue, id |-> messageId,
                   failedMessage |-> failedMessage, dlqConfig |-> dlqConfig,
                   res |-> Reply(ok, "OK"), pre |-> Snapshot]
        /\ admissions' = MapSet(admissions, messageId,
                                [queue |-> queue, retryCount |-> currentRetryCount,
                                 config |-> config,
                                 maxRetries |-> dlqConfig.maxRetries,
                                 payload |-> StringifyPayload(failedMessage.message)])
        /\ IF retry
           THEN /\ apc' = "scheduleRetry"
                /\ store' = IF ok THEN scheduleRetry(store, failedMessage, dlqConfig, now)
                            ELSE store
           ELSE /\ apc' = "moveSetex"
                /\ store' = IF ok
                            THEN Setex(store, PermanentKey(queue, messageId),
                                       RetentionSeconds(defaultConfig),
                                       StringifyMessage(failedMessage), now)
                            ELSE store
        /\ Faulted(ok)
        /\ UNCHANGED <<retryVars, lifeVars,
                       now, ticks, originQueues, events, configs, processing,
                       spc, scan, mpc, man, dpc, del, published, lastOp>>

\* a store command of addToDLQ was rejected: nothing catches it
AdmitRejected ==
    /\ apc \in {"scheduleRetry", "moveSetex", "moveDel", "alertKeys", "store"}
    /\ ~adm.res.ok
    /\ apc' = "idle"
    /\ adm' = IdleAdmission
    /\ lastOp' = Completed("addToDLQ", adm.queue, adm.id, "threw", FALSE, TRUE, adm.pre)
    /\ UNCHANGED <<retryVars, lifeVars,
                   ops, now, ticks, store, originQueues, events, configs, processing,
                   nextId, spc, scan, mpc, man, dpc, del, faults, admissions,
                   published>>

\* the setex of the active record that ends addToDLQ
IssueStore(ok) ==
    /\ apc' = "store"
    /\ store' = IF ok
                THEN Setex(store, ActiveKey(adm.queue, adm.id),
                           RetentionSeconds(adm.dlqConfig),
                           StringifyMessage(adm.failedMessage), now)
                ELSE store
    /\ adm' = [adm EXCEPT !.res = Reply(ok, "OK")]
    /\ Faulted(ok)

\* scheduleRetry has returned
AdmitScheduled ==
    /\ apc = "scheduleRetry"
    /\ adm.res.ok
    /\ \E ok \in Oks : IssueStore(ok)
    /\ UNCHANGED <<retryVars, lifeVars,
                   ops, now, ticks, originQueues, events, configs, processing, nextId,
                   spc, scan, mpc, man, dpc, del, admissions, published, lastOp>>

\* moveToPermanentDLQ: the permanent record is written, the regular key is
\* deleted next
AdmitMoveSetex ==
    /\ apc = "moveSetex"
    /\ adm.res.ok
    /\ \E ok \in Oks :
          LET d == Del(store, ActiveKey(adm.queue, adm.id))
          IN  /\ store' = IF ok THEN d.store ELSE store
              /\ adm' = [adm EXCEPT !.res = Reply(ok, d.deleted)]
              /\ Faulted(ok)
    /\ apc' = "moveDel"
    /\ UNCHANGED <<retryVars, lifeVars,
                   ops, now, ticks, originQueues, events, configs, processing, nextId,
                   spc, scan, mpc, man, dpc, del, admissions, published, lastOp>>

\* moveToPermanentDLQ returns after its event; checkAlertThreshold lists the
\* permanent keys of the queue
AdmitMoveDel ==
    /\ apc = "moveDel"
    /\ adm.res.ok
    /\ events' = Emit(events, "dlq.message.permanent", adm.queue)
    /\ \E ok \in Oks :
          /\ adm' = [adm EXCEPT !.res =
                        Reply(ok, Keys(store, <<"dlq", "permanent", adm.queue, "*">>))]
          /\ Faulted(ok)
    /\ apc' = "alertKeys"
    /\ UNCHANGED <<retryVars, lifeVars,
                   ops, now, ticks, store, originQueues, configs, processing, nextId,
                   spc, scan, mpc, man, dpc, del, admissions, published, lastOp>>

\* the config checkAlertThreshold reads
AlertConfig(cfgs, queue) == IF queue \in DOMAIN cfgs THEN cfgs[queue] ELSE defaultConfig

\* what checkAlertThreshold emits for the keys it was given
checkAlertThreshold(ev, cfgs, queue, permanentKeys) ==
    IF Cardinality(permanentKeys) >= AlertConfig(cfgs, queue).alertThreshold
    THEN Emit(ev, "dlq.threshold.exceeded", queue)
    ELSE ev

\* checkAlertThreshold has its keys and returns; the active record is written
AdmitAlertKeys ==
    /\ apc = "alertKeys"
    /\ adm.res.ok
    /\ events' = checkAlertThreshold(events, configs, adm.queue, adm.res.value)
    /\ \E ok \in Oks : IssueStore(ok)
    /\ UNCHANGED <<retryVars, lifeVars,
                   ops, now, ticks, originQueues, configs, processing, nextId,
                   spc, scan, mpc, man, dpc, del, admissions, published, lastOp>>

\* the active record is written: addToDLQ emits its event and returns
AdmitStored ==
    /\ apc = "store"
    /\ adm.res.ok
    /\ events' = Emit(events, "dlq.message.added", adm.queue)
    /\ apc' = "idle"
    /\ adm' = IdleAdmission
    /\ lastOp' = Completed("addToDLQ", adm.queue, adm.id, "returned", TRUE, FALSE, adm.pre)
    /\ UNCHANGED <<retryVars, lifeVars,
                   ops, now, ticks, store, originQueues, configs, processing, nextId,
                   spc, scan, mpc, man, dpc, del, faults, admissions, published>>

\* configureQueue(queue, config)
configureQueue(queue, config) ==
    /\ configs' = MapSet(configs, queue, Spread(defaultConfig, config))
    /\ UNCHANGED <<retryVars, lifeVars,
                   ops, now, ticks, store, originQueues, events, processing, nextId,
                   apc, adm, spc, scan, mpc, man, dpc, del, faults, admissions,
                   published, lastOp>>

---------------------------------------------------------------------------
(* Retry scheduler: processRetryQueue and executeRetry *)

RetryPattern == <<"dlq", "*", "retry", "*">>

\* the key of the active record executeRetry loads
MessageKey(retryInfo) == ActiveKey(retryInfo.queue, retryInfo.messageId)

Loop_ignoresProcessing(s, sc, proc) ==
    IF sc.keys = {}
    THEN /\ processing' = proc
         /\ spc' = [spc EXCEPT ![s] = "idle"]
         /\ scan' = [scan EXCEPT ![s] = IdleScan]
         /\ lastOp' = Completed("processRetryQueue", "", "", "returned",
                                TRUE, sc.faulted, sc.pre)
         /\ UNCHANGED faults
    ELSE \E k \in sc.keys, ok \in Oks :
            /\ processing' = proc \cup {k}
            /\ spc' = [spc EXCEPT ![s] = "getPointer"]
            /\ scan' = [scan EXCEPT ![s] =
                           [sc EXCEPT !.keys = sc.keys \ {k},
                                      !.key = k,
                                      !.res = Reply(ok, Get(store, k)),
                                      !.faulted = sc.faulted \/ ~ok]]
            /\ Faulted(ok)
            /\ UNCHANGED lastOp

Loop_abortsOnError(s, sc, proc) ==
    IF sc.keys \subseteq proc \/ sc.faulted
    THEN /\ processing' = proc
         /\ spc' = [spc EXCEPT ![s] = "idle"]
         /\ scan' = [scan EXCEPT ![s] = IdleScan]
         /\ lastOp' = Completed("processRetryQueue", "", "", "returned",
                                TRUE, sc.faulted, sc.pre)
         /\ UNCHANGED faults
    ELSE \E k \in sc.keys \ proc, skipped \in SUBSET (sc.keys \cap proc),
            ok \in Oks :
            /\ processing' = proc \cup {k}
            /\ spc' = [spc EXCEPT ![s] = "getPointer"]
            /\ scan' = [scan EXCEPT ![s] =
                           [sc EXCEPT !.keys = sc.keys \ ({k} \cup skipped),
                                      !.key = k,
                                      !.res = Reply(ok, Get(store, k)),
                                      !.faulted = sc.faulted \/ ~ok]]
            /\ Faulted(ok)
            /\ UNCHANGED lastOp

\* the for-loop of processRetryQueue from its head to the next awaited get:
\* the keys come in an order the store chooses, the keys another run is
\* processing are skipped, the next one is claimed and read.  The loop, and
\* with it the run, is over when every key left is skipped.
Loop(s, sc, proc) ==
    IF sc.keys \subseteq proc
    THEN /\ processing' = proc
         /\ spc' = [spc EXCEPT ![s] = "idle"]
         /\ scan' = [scan EXCEPT ![s] = IdleScan]
         /\ lastOp' = Completed("processRetryQueue", "", "", "returned",
                                TRUE, sc.faulted, sc.pre)
         /\ UNCHANGED faults
    ELSE \E k \in sc.keys \ proc, skipped \in SUBSET (sc.keys \cap proc),
            ok \in Oks :
            /\ processing' = proc \cup {k}
            /\ spc' = [spc EXCEPT ![s] = "getPointer"]
            /\ scan' = [scan EXCEPT ![s] =
                           [sc EXCEPT !.keys = sc.keys \ ({k} \cup skipped),
                                      !.key = k,
                                      !.res = Reply(ok, Get(store, k)),
                                      !.faulted = sc.faulted \/ ~ok]]
            /\ Faulted(ok)
            /\ UNCHANGED lastOp

\* a run of processRetryQueue starts: redis.keys('dlq:*:retry:*')
processRetryQueue(s) ==
    /\ spc[s] = "idle"
    /\ \E ok \in Oks :
          /\ scan' = [scan EXCEPT ![s] =
                         [IdleScan EXCEPT !.res = Reply(ok, Keys(store, RetryPattern)),
                                          !.faulted = ~ok,
                                          !.pre = Snapshot]]
          /\ Faulted(ok)
    /\ spc' = [spc EXCEPT ![s] = "keys"]
    /\ UNCHANGED <<retryVars, lifeVars,
                   now, ticks, store, originQueues, events, configs, processing,
                   nextId, apc, adm, mpc, man, dpc, del, admissions, published,
                   lastOp>>

\* the keys are there (or the command was rejected, and with it the run:
\* the caller of processRetryQueue catches it)
ScanKeys(s) ==
    /\ spc[s] = "keys"
    /\ IF scan[s].res.ok
       THEN Loop(s, [scan[s] EXCEPT !.keys = scan[s].res.value], processing)
       ELSE /\ spc' = [spc EXCEPT ![s] = "idle"]
            /\ scan' = [scan EXCEPT ![s] = IdleScan]
            /\ lastOp' = Completed("processRetryQueue", "", "", "rejected",
                                   FALSE, TRUE, scan[s].pre)
            /\ UNCHANGED <<processing, faults>>
    /\ UNCHANGED <<retryVars, lifeVars,
                   ops, now, ticks, store, originQueues, events, configs, nextId,
                   apc, adm, mpc, man, dpc, del, admissions, published>>

\* whether the pointer is due at time t
IsDue_always(retryInfo, t) == TRUE

IsDue(retryInfo, t) == DateLE(NewDate(retryInfo.nextRetryAt), <<"date", t>>)

\* the pointer was read: a rejected get is caught, a missing pointer and a
\* pointer not yet due are passed over, a due one goes to executeRetry,
\* which starts by loading the active record
ScanPointer(s) ==
    /\ spc[s] = "getPointer"
    /\ LET sc == scan[s]
           due == /\ sc.res.ok
                  /\ sc.res.value.found
                  /\ IsDue(sc.res.value.data, now)
       IN  IF due
           THEN \E ok \in Oks :
                   /\ scan' = [scan EXCEPT ![s] =
                                  [sc EXCEPT !.retryInfo = sc.res.value.data,
                                             !.res = Reply(ok, Get(store,
                                                        MessageKey(sc.res.value.data))),
                                             !.faulted = sc.faulted \/ ~ok]]
                   /\ Faulted(ok)
                   /\ spc' = [spc EXCEPT ![s] = "getMessage"]
                   /\ UNCHANGED <<processing, lastOp>>
           ELSE Loop(s, sc, processing \ {sc.key})
    /\ UNCHANGED <<retryVars, lifeVars,
                   ops, now, ticks, store, originQueues, events, configs, nextId,
                   apc, adm, mpc, man, dpc, del, admissions, published>>

\* ghost: one more lpush of the message by the given path
Publish(pub, path, id) ==
    MapSet(pub, <<path, id>>,
           IF <<path, id>> \in DOMAIN pub THEN pub[<<path, id>>] + 1 ELSE 1)

\* processRetryQueue deletes the pointer once executeRetry has returned
IssueDelPointer(s, sc, st, ok) ==
    /\ store' = IF ok THEN Del(st, sc.key).store ELSE st
    /\ scan' = [scan EXCEPT ![s] =
                   [sc EXCEPT !.res = Reply(ok, Del(st, sc.key).deleted),
                              !.faulted = sc.faulted \/ ~ok]]
    /\ Faulted(ok)
    /\ spc' = [spc EXCEPT ![s] = "delPointer"]

\* executeRetry has the record: it pushes the payload onto the origin queue;
\* without a record, or with its get rejected, it returns
ScanMessage(s) ==
    /\ spc[s] = "getMessage"
    /\ LET sc == scan[s]
           q == sc.retryInfo.queue
       IN  IF sc.res.ok /\ sc.res.value.found
           THEN \E ok \in Oks :
                   LET failedMessage == sc.res.value.data
                   IN  /\ originQueues' =
                            IF ok
                            THEN Lpush(originQueues, q,
                                       StringifyPayload(failedMessage.message))
                            ELSE originQueues
                       /\ published' =
                            IF ok
                            THEN Publish(published, "scheduler", sc.retryInfo.messageId)
                            ELSE published
                       /\ scan' = [scan EXCEPT ![s] =
                                      [sc EXCEPT !.failedMessage = failedMessage,
                                                 !.res = Reply(ok, "OK"),
                                                 !.faulted = sc.faulted \/ ~ok]]
                       /\ Faulted(ok)
                       /\ spc' = [spc EXCEPT ![s] = "lpush"]
                       /\ UNCHANGED store
           ELSE /\ \E ok \in Oks : IssueDelPointer(s, sc, store, ok)
                /\ UNCHANGED <<originQueues, published>>
    /\ UNCHANGED <<retryVars, lifeVars,
                   ops, now, ticks, events, configs, processing, nextId, apc, adm,
                   mpc, man, dpc, del, admissions, lastOp>>

\* the payload is pushed: executeRetry re-persists the record with its
\* retryCount incremented; a rejected lpush ends executeRetry
ScanLpush(s) ==
    /\ spc[s] = "lpush"
    /\ LET sc == scan[s]
       IN  IF sc.res.ok
           THEN \E ok \in Oks :
                   LET failedMessage ==
                           [sc.failedMessage EXCEPT !.retryCount = @ + 1]
                   IN  /\ store' =
                            IF ok
                            THEN Setex(store, MessageKey(sc.retryInfo),
                                       RetentionSeconds(defaultConfig),
                                       StringifyMessage(failedMessage), now)
                            ELSE store
                       /\ scan' = [scan EXCEPT ![s] =
                                      [sc EXCEPT !.failedMessage = failedMessage,
                                                 !.res = Reply(ok, "OK"),
                                                 !.faulted = sc.faulted \/ ~ok]]
                       /\ Faulted(ok)
                       /\ spc' = [spc EXCEPT ![s] = "setex"]
           ELSE \E ok \in Oks : IssueDelPointer(s, sc, store, ok)
    /\ UNCHANGED <<retryVars, lifeVars,
                   ops, now, ticks, originQueues, events, configs, processing, nextId,
                   apc, adm, mpc, man, dpc, del, admissions, published, lastOp>>

\* the record is re-persisted: executeRetry emits its event and returns
ScanSetex(s) ==
    /\ spc[s] = "setex"
    /\ events' = IF scan[s].res.ok
                 THEN Emit(events, "dlq.retry.successful", scan[s].retryInfo.queue)
                 ELSE events
    /\ \E ok \in Oks : IssueDelPointer(s, scan[s], store, ok)
    /\ UNCHANGED <<retryVars, lifeVars,
                   ops, now, ticks, originQueues, configs, processing, nextId,
                   apc, adm, mpc, man, dpc, del, admissions, published, lastOp>>

\* the pointer is deleted (a rejected del is caught): the key is released and
\* the loop goes on
ScanDel(s) ==
    /\ spc[s] = "delPointer"
    /\ Loop(s, scan[s], processing \ {scan[s].key})
    /\ UNCHANGED <<retryVars, lifeVars,
                   ops, now, ticks, store, originQueues, events, configs, nextId,
                   apc, adm, mpc, man, dpc, del, admissions, published>>

---------------------------------------------------------------------------
(* DLQ orchestrator: retryMessage and deleteMessage *)

\* ghost: the number of lpush calls made by retryMessage so far
ManualPublishes ==
    LET ks == { x \in DOMAIN published : x[1] = "manual" }
        RECURSIVE Sum(_)
        Sum(S) == IF S = {} THEN 0
                  ELSE LET x == CHOOSE y \in S : TRUE
                       IN  published[x] + Sum(S \ {x})
    IN  Sum(ks)

\* the message ids generated so far
MessageIds == { generateMessageId(n) : n \in 1..nextId }

\* retryMessage(queue, messageId) up to its awaited get
retryMessage(queue, messageId) ==
    /\ mpc = "idle"
    /\ ManualPublishes < MaxPublishes
    /\ \E ok \in Oks :
          /\ man' = [queue |-> queue, id |-> messageId, failedMessage |-> Null,
                     res |-> Reply(ok, Get(store, ActiveKey(queue, messageId))),
                     pre |-> Snapshot]
          /\ Faulted(ok)
    /\ mpc' = "get"
    /\ UNCHANGED <<retryVars, lifeVars,
                   now, ticks, store, originQueues, events, configs, processing,
                   nextId, apc, adm, spc, scan, dpc, del, admissions, published,
                   lastOp>>

\* retryMessage returns: false from its catch block or for a missing record
ManualReturns(result, faulted) ==
    /\ mpc' = "idle"
    /\ man' = IdleManual
    /\ lastOp' = Completed("retryMessage", man.queue, man.id, "returned",
                           result, faulted, man.pre)

\* a store command of retryMessage was rejected
ManualRejected ==
    /\ mpc \in {"get", "lpush", "setex"}
    /\ ~man.res.ok
    /\ ManualReturns(FALSE, TRUE)
    /\ UNCHANGED <<retryVars, lifeVars,
                   ops, now, ticks, store, originQueues, events, configs, processing,
                   nextId, apc, adm, spc, scan, dpc, del, faults, admissions,
                   published>>

\* no record under the key
ManualMissing ==
    /\ mpc = "get"
    /\ man.res.ok
    /\ ~man.res.value.found
    /\ ManualReturns(FALSE, FALSE)
    /\ UNCHANGED <<retryVars, lifeVars,
                   ops, now, ticks, store, originQueues, events, configs, processing,
                   nextId, apc, adm, spc, scan, dpc, del, faults, admissions,
                   published>>

\* the record is there: its payload is pushed onto the queue
ManualGot ==
    /\ mpc = "get"
    /\ man.res.ok
    /\ man.res.value.found
    /\ \E ok \in Oks :
          LET failedMessage == man.res.value.data
          IN  /\ originQueues' =
                    IF ok
                    THEN Lpush(originQueues, man.queue,
                               StringifyPayload(failedMessage.message))
                    ELSE originQueues
              /\ published' = IF ok THEN Publish(published, "manual", man.id)
                              ELSE published
              /\ man' = [man EXCEPT !.failedMessage = failedMessage,
                                    !.res = Reply(ok, "OK")]
              /\ Faulted(ok)
    /\ mpc' = "lpush"
    /\ UNCHANGED <<retryVars, lifeVars,
                   ops, now, ticks, store, events, configs, processing, nextId,
                   apc, adm, spc, scan, dpc, del, admissions, lastOp>>

\* the retry count retryMessage persists
NewRetryCount_reset(retryCount) == 0

NewRetryCount(retryCount) == retryCount + 1

\* the payload is pushed: the record is re-persisted with its new retryCount
ManualLpush ==
    /\ mpc = "lpush"
    /\ man.res.ok
    /\ \E ok \in Oks :
          LET failedMessage ==
                  [man.failedMessage EXCEPT !.retryCount = NewRetryCount(@)]
          IN  /\ store' = IF ok
                          THEN Setex(store, ActiveKey(man.queue, man.id),
                                     RetentionSeconds(defaultConfig),
                                     StringifyMessage(failedMessage), now)
                          ELSE store
              /\ man' = [man EXCEPT !.failedMessage = failedMessage,
                                    !.res = Reply(ok, "OK")]
              /\ Faulted(ok)
    /\ mpc' = "setex"
    /\ UNCHANGED <<retryVars, lifeVars,
                   ops, now, ticks, originQueues, events, configs, processing, nextId,
                   apc, adm, spc, scan, dpc, del, admissions, published, lastOp>>

\* the record is re-persisted: retryMessage emits its event and returns true
ManualSetex ==
    /\ mpc = "setex"
    /\ man.res.ok
    /\ events' = Emit(events, "dlq.message.manual_retry", man.queue)
    /\ ManualReturns(TRUE, FALSE)
    /\ UNCHANGED <<retryVars, lifeVars,
                   ops, now, ticks, store, originQueues, configs, processing, nextId,
                   apc, adm, spc, scan, dpc, del, faults, admissions, published>>

\* deleteMessage(queue, messageId) up to its awaited del
deleteMessage(queue, messageId) ==
    /\ dpc = "idle"
    /\ \E ok \in Oks :
          LET d == Del(store, ActiveKey(queue, messageId))
          IN  /\ store' = IF ok THEN d.store ELSE store
              /\ del' = [queue |-> queue, id |-> messageId,
                         res |-> Reply(ok, d.deleted), pre |-> Snapshot]
              /\ Faulted(ok)
    /\ dpc' = "del"
    /\ UNCHANGED <<retryVars, lifeVars,
                   now, ticks, originQueues, events, configs, processing, nextId,
                   apc, adm, spc, scan, mpc, man, admissions, published, lastOp>>

\* deleteMessage returns: true with its event when a key was deleted, false
\* otherwise and from its catch block
DeleteDone ==
    /\ dpc = "del"
    /\ LET deleted == del.res.ok /\ del.res.value > 0
       IN  /\ events' = IF deleted
                        THEN Emit(events, "dlq.message.deleted", del.queue)
                        ELSE events
           /\ lastOp' = Completed("deleteMessage", del.queue, del.id, "returned",
                                  deleted, ~del.res.ok, del.pre)
    /\ dpc' = "idle"
    /\ del' = IdleDelete
    /\ UNCHANGED <<retryVars, lifeVars,
                   ops, now, ticks, store, originQueues, configs, processing, nextId,
                   apc, adm, spc, scan, mpc, man, faults, admissions, published>>

---------------------------------------------------------------------------
(* DLQ orchestrator: getDLQStats *)

\* no queue argument
AllQueues == "*"

\* key.includes(':' + word + ':'): the word is a segment of the key other
\* than its first and its last one
IncludesSegment(key, word) == \E i \in 2..(Len(key) - 1) : key[i] = word

\* the counter a key is counted under
KeyClass(key) ==
    IF IncludesSegment(key, "permanent") THEN "permanent"
    ELSE IF IncludesSegment(key, "retry") THEN "retry"
    ELSE "total"

\* key.split(':')[1]
QueueNameOf(key) == key[2]

\* the pattern getDLQStats lists the keys with
StatsPattern(scope) ==
    IF scope = AllQueues THEN <<"dlq", "*">> ELSE <<"dlq", scope, "*">>

\* the statistics getDLQStats computes from the store
DLQStats(st, scope) ==
    LET keys == Keys(st, StatsPattern(scope))
        Count(class) == Cardinality({ k \in keys : KeyClass(k) = class })
        CountOf(name, class) ==
            Cardinality({ k \in keys : QueueNameOf(k) = name /\ KeyClass(k) = class })
    IN  [total |-> Count("total"),
         permanent |-> Count("permanent"),
         retryScheduled |-> Count("retry"),
         byQueue |-> { [queue |-> name,
                         total |-> CountOf(name, "total"),
                         permanent |-> CountOf(name, "permanent"),
                         retry |-> CountOf(name, "retry")] :
                        name \in { QueueNameOf(k) : k \in keys } }]

\* getDLQStats(queue?): its keys and get commands, none of which changes the
\* store; a rejected one makes it throw
getDLQStats(scope, ok) ==
    /\ lastOp' = [Completed("getDLQStats", scope, "",
                            IF ok THEN "returned" ELSE "threw",
                            DLQStats(store, scope), ~ok, Snapshot)
                    EXCEPT !.nth = ops + 1]
    /\ Faulted(ok)
    /\ UNCHANGED <<retryVars, lifeVars,
                   now, ticks, store, originQueues, events, configs,
                   processing, nextId, apc, adm, spc, scan, mpc, man, dpc, del,
                   admissions, published>>

---------------------------------------------------------------------------
(* The DLQ operations called one after the other: no operation starts      *)
(* while another one is in progress, and the clock stands still during an  *)
(* operation.                                                              *)

Quiet ==
    /\ apc = "idle"
    /\ mpc = "idle"
    /\ dpc = "idle"
    /\ \A s \in Scanners : spc[s] = "idle"

\* the period of the scheduler's setInterval
ScanInterval == 30000

\* time passes between operations: the keys whose TTL has run out are gone
\* (time matters only while a retry is scheduled)
IntervalElapses ==
    /\ Quiet
    /\ Keys(store, RetryPattern) # {}
    /\ ticks < MaxIntervals
    /\ now' = now + ScanInterval
    /\ ticks' = ticks + 1
    /\ store' = Unexpired(store, now + ScanInterval)
    /\ UNCHANGED <<retryVars, lifeVars,
                   ops, originQueues, events, configs, processing, nextId, apc, adm,
                   spc, scan, mpc, man, dpc, del, faults, admissions, published,
                   lastOp>>

\* the registered configs the callers set
QueueConfigs == { <<"emails", [alertThreshold |-> 2]>> }

DlqSteps ==
    \/ AdmitRejected
    \/ AdmitScheduled
    \/ AdmitMoveSetex
    \/ AdmitMoveDel
    \/ AdmitAlertKeys
    \/ AdmitStored
    \/ \E s \in Scanners : ScanKeys(s)
    \/ \E s \in Scanners : ScanPointer(s)
    \/ \E s \in Scanners : ScanMessage(s)
    \/ \E s \in Scanners : ScanLpush(s)
    \/ \E s \in Scanners : ScanSetex(s)
    \/ \E s \in Scanners : ScanDel(s)
    \/ ManualRejected
    \/ ManualMissing
    \/ ManualGot
    \/ ManualLpush
    \/ ManualSetex
    \/ DeleteDone

\* callers pass the ids of the messages that were admitted to the queue
Admitted == { <<admissions[id].queue, id>> : id \in MessageIds }

\* one more operation starts, while no other one is in progress
Sequential(start) ==
    /\ Quiet
    /\ ops < MaxOperations
    /\ ops' = ops + 1
    /\ start

DlqNext ==
    \/ \E queue \in Queues, in \in AdmissionInputs, r \in RetryDraws, ok \in Oks :
          Sequential(addToDLQ(queue, in.currentRetryCount, in.config, r, ok))
    \/ \E qc \in QueueConfigs :
          /\ nextId = 0
          /\ qc[1] \notin DOMAIN configs
          /\ Quiet
          /\ configureQueue(qc[1], qc[2])
    \/ Sequential(processRetryQueue("scanA"))
    \/ \E m \in Admitted : Sequential(retryMessage(m[1], m[2]))
    \/ \E m \in Admitted : Sequential(deleteMessage(m[1], m[2]))
    \/ \E scope \in Queues \cup {AllQueues}, ok \in Oks :
          Sequential(getDLQStats(scope, ok))
    \/ IntervalElapses
    \/ DlqSteps

DlqStart ==
    /\ RetryStart
    /\ opName = <<"unknown_operation">>
    /\ DlqInit

DLQSpec == DlqStart /\ [][DlqNext]_vars

---------------------------------------------------------------------------
(* The DLQ operations overlapping in time: a scheduler run, a manual retry  *)
(* and a deletion start while other calls are between two of their awaited  *)
(* store commands, and the steps of the calls in progress interleave in any *)
(* order.  Both setInterval callbacks and the callers run on one event      *)
(* loop, so a step is atomic.                                               *)

\* one more call starts while other calls may be in progress
Overlapping(start) ==
    /\ apc = "idle"
    /\ ops < MaxOperations
    /\ ops' = ops + 1
    /\ start

OverlapNext ==
    \/ \E queue \in Queues, in \in AdmissionInputs, r \in RetryDraws, ok \in Oks :
          Sequential(addToDLQ(queue, in.currentRetryCount, in.config, r, ok))
    \/ \E s \in Scanners : Overlapping(processRetryQueue(s))
    \/ \E m \in Admitted : Overlapping(retryMessage(m[1], m[2]))
    \/ \E m \in Admitted : Overlapping(deleteMessage(m[1], m[2]))
    \/ IntervalElapses
    \/ DlqSteps

OverlapSpec == DlqStart /\ [][OverlapNext]_vars

---------------------------------------------------------------------------
(* The retry schedule: admissions under the retry budget with the configs   *)
(* the callers pass, the periodic scans and the time between them.          *)

\* the config overrides of the admissions: none (the backoff delay of the
\* default config stays far below its maxDelay), a config whose delay
\* reaches its maxDelay, and one whose maxDelay is shorter than the scan
\* interval
ScheduleConfigs ==
    { NoOverride,
      [baseDelay |-> ScanInterval, maxDelay |-> ScanInterval, enableJitter |-> FALSE],
      [maxDelay |-> defaultConfig.baseDelay] }

ScheduleSteps ==
    \/ AdmitRejected
    \/ AdmitScheduled
    \/ AdmitStored
    \/ \E s \in Scanners : ScanKeys(s)
    \/ \E s \in Scanners : ScanPointer(s)
    \/ \E s \in Scanners : ScanMessage(s)
    \/ \E s \in Scanners : ScanLpush(s)
    \/ \E s \in Scanners : ScanSetex(s)
    \/ \E s \in Scanners : ScanDel(s)

ScheduleNext ==
    \/ \E queue \in Queues, config \in ScheduleConfigs, r \in RetryDraws, ok \in Oks :
          Sequential(addToDLQ(queue, 0, config, r, ok))
    \/ Sequential(processRetryQueue("scanA"))
    \/ IntervalElapses
    \/ ScheduleSteps

ScheduleSpec == DlqStart /\ [][ScheduleNext]_vars

---------------------------------------------------------------------------
(* The policy of an admission: queues are configured, then messages are     *)
(* admitted with and without overrides of the call.                         *)

\* the configs registered for the queues
PolicyQueueConfigs ==
    { <<"emails", [maxRetries |-> 1, retentionPeriod |-> 3, alertThreshold |-> 2]>>,
      <<"reports", [baseDelay |-> 2000]>> }

\* the (currentRetryCount, config) pairs of the admissions
PolicyInputs ==
    { [currentRetryCount |-> 0, config |-> NoOverride],
      [currentRetryCount |-> 1, config |-> NoOverride],
      [currentRetryCount |-> 1,
       config |-> [maxRetries |-> 1, retentionPeriod |-> 1, alertThreshold |-> 1]],
      [currentRetryCount |-> 1, config |-> [maxRetries |-> 2, enableJitter |-> FALSE]] }

PolicySteps ==
    \/ AdmitRejected
    \/ AdmitScheduled
    \/ AdmitMoveSetex
    \/ AdmitMoveDel
    \/ AdmitAlertKeys
    \/ AdmitStored

PolicyNext ==
    \/ \E qc \in PolicyQueueConfigs :
          /\ nextId = 0
          /\ qc[1] \notin DOMAIN configs
          /\ Quiet
          /\ configureQueue(qc[1], qc[2])
    \/ \E queue \in Queues, in \in PolicyInputs, r \in RetryDraws, ok \in Oks :
          Sequential(addToDLQ(queue, in.currentRetryCount, in.config, r, ok))
    \/ PolicySteps

PolicySpec == DlqStart /\ [][PolicyNext]_vars

---------------------------------------------------------------------------
(* The lifecycle of the service: the constructor has started the two        *)
(* timers, messages are admitted, the timers fire and the module is         *)
(* destroyed.                                                               *)

\* onModuleDestroy()
onModuleDestroy ==
    /\ ~destroyed
    /\ processing' = {}
    /\ destroyed' = TRUE
    /\ lastOp' = [Completed("onModuleDestroy", "", "", "returned", TRUE, FALSE, Snapshot)
                     EXCEPT !.nth = ops + 1]
    /\ UNCHANGED <<retryVars, timers, now, ticks, store, originQueues, events, configs,
                   nextId, apc, adm, spc, scan, mpc, man, dpc, del, faults, admissions,
                   published>>

\* the timer of processRetryQueue fires
SchedulerTimerFires ==
    /\ "processRetryQueue" \in timers
    /\ Sequential(processRetryQueue("scanA"))

\* the timer of cleanupExpiredMessages fires: it reads the statistics
CleanupTimerFires ==
    /\ "cleanupExpiredMessages" \in timers
    /\ \E ok \in Oks : Sequential(getDLQStats(AllQueues, ok))

LifecycleNext ==
    \/ \E queue \in Queues, r \in RetryDraws, ok \in Oks :
          /\ ~destroyed
          /\ Sequential(addToDLQ(queue, 0, NoOverride, r, ok))
    \/ SchedulerTimerFires
    \/ CleanupTimerFires
    \/ Sequential(onModuleDestroy)
    \/ IntervalElapses
    \/ ScheduleSteps

LifecycleSpec == DlqStart /\ [][LifecycleNext]_vars

---------------------------------------------------------------------------
(* Claims on the retry executor (RetrySpec) *)

\* the call in progress ended by throwing, its operation having thrown a
\* retryable error (accepted by the retryCondition) at every invocation
ExhaustedByRetryableErrors ==
    /\ pc = "thrown"
    /\ call.fresh
    /\ call.allRetryable

\* the call threw the error of its N-th invocation after exactly N invocations
ThrewErrorOfInvocation(n) ==
    /\ call.invocations = n
    /\ call.lastFailed = n
    /\ call.thrown = call.lastOpError
    /\ call.thrown # CircuitOpenMessage(call.name)

\* C1 as stated: for every maxAttempts N >= 1, a call under a name without a
\* breaker, whose operation throws a retryable error at every invocation,
\* invokes the operation exactly N times and throws the N-th error
C1_AsStated ==
    ExhaustedByRetryableErrors => ThrewErrorOfInvocation(call.config.maxAttempts)

\* C1 amended: the same for every N from 1 to the default failureThreshold (5)
C1_RetryExhaustion ==
    (ExhaustedByRetryableErrors /\ call.config.maxAttempts <= DefaultFailureThreshold)
        => ThrewErrorOfInvocation(call.config.maxAttempts)

C1_Witness ==
    /\ ExhaustedByRetryableErrors
    /\ call.config.maxAttempts = DefaultFailureThreshold
    /\ call.invocations = DefaultFailureThreshold
    /\ call.thrown = <<"504", "gateway", "timeout">>

\* whether the policy lets the loop go on after error `err` of attempt `a`
AbortConditions(c) ==
    \/ c.attempt = c.config.maxAttempts
    \/ c.config.retryCondition # "none" /\ ~retryCondition(c.config.retryCondition, c.lastError)
    \/ ~isRetryableError(c.lastError)

\* C2: after a failed attempt that was the last one, or whose error the
\* retryCondition rejects, or whose error is not built-in retryable, the call
\* throws that attempt's error with no backoff delay (it never sleeps after
\* such an attempt: every sleep so far followed an earlier attempt) and no
\* further invocation; an operation whose first error is not retryable is
\* invoked exactly once
C2_AbortWithoutDelay ==
    /\ pc = "sleeping" => ~AbortConditions(call)
    /\ pc = "thrown" =>
          /\ call.thrown = call.lastError
          /\ call.sleeps = call.attempt - 1
          /\ call.invocations + call.rejections = call.attempt
    /\ (call.firstError # NoError /\ ~isRetryableError(call.firstError))
          => (pc = "thrown" /\ call.invocations = 1 /\ call.thrown = call.firstError)

C2_Witness ==
    /\ pc = "thrown"
    /\ call.config.maxAttempts = MaxAttemptsBound
    /\ call.firstError = <<"Validation", "failed">>
    /\ call.invocations = 1
    /\ call.sleeps = 0

\* C3: an attempt that finds the breaker Open inside its recovery window ends
\* the call with the circuit-open error: the operation is not invoked for it,
\* no backoff delay follows it and no further attempt starts
C3_CircuitOpenShortCircuits ==
    call.rejections > 0 =>
        /\ pc = "thrown"
        /\ call.thrown = CircuitOpenMessage(call.name)
        /\ call.rejections = 1
        /\ call.invocations = call.attempt - 1
        /\ call.sleeps = call.attempt - 1

\* the call ended by throwing the error of an operation failure while
\* attempts remained
AbortedWithAttemptsLeft ==
    /\ pc = "thrown"
    /\ call.rejections = 0
    /\ call.thrown = call.lastOpError
    /\ call.attempt < call.config.maxAttempts

\* C18: while attempts remain, a failure whose error matches the built-in
\* retryable set or is accepted by the caller's retryCondition is followed
\* by the backoff delay and another attempt: a call ends with attempts left
\* only on an error that is neither.
C18_RetryableOrAccepted ==
    AbortedWithAttemptsLeft =>
       /\ ~isRetryableError(call.thrown)
       /\ ~(call.config.retryCondition # "none"
            /\ retryCondition(call.config.retryCondition, call.thrown))
---------------------------------------------------------------------------
(* Claims on executeWithRetry and an open breaker (RecoverySpec) *)

\* the latest executeWithRetry call was rejected as circuit-open at its first
\* attempt, without the operation being invoked
RejectedAtOnce ==
    /\ call.attempt = 1
    /\ call.rejections = 1
    /\ call.invocations = 0

\* C17: a call that starts more than recoveryTimeout after the operation
\* failure that opened the breaker of its name is not rejected as
\* circuit-open (its operation is invoked as a HalfOpen trial), however many
\* calls were rejected while the breaker was open; a call is rejected at once
\* only within recoveryTimeout of that failure.
C17_TrialAfterRecoveryTimeout ==
    (RejectedAtOnce /\ call.name \in DOMAIN openedAt) =>
       call.startedAt - openedAt[call.name]
          <= circuitBreakers[call.name].recoveryTimeout
---------------------------------------------------------------------------
(* Claims on the circuit breaker registry (BreakerSpec) *)

Breaker == Before(circuitBreakers, opName)
Elapsed == lastCall.at - lastCall.pre.lastFailureTime

\* C4: from Closed with failureCount 0 and a fixed failureThreshold T, the
\* breaker is Closed (isOpen false) after fewer than T recordFailure calls and
\* Open right after the T-th; isOpen on an Open breaker returns true while
\* less than recoveryTimeout has elapsed since the last failure, and once
\* recoveryTimeout has elapsed it returns false and leaves the breaker HalfOpen
C4_TripAndRecover ==
    /\ opName \notin thrChanged =>
          /\ Breaker.failureCount < Breaker.failureThreshold
                => /\ Breaker.status = "closed"
                   /\ ~isCircuitOpen(circuitBreakers, opName, now).result
          /\ (lastCall.op = "recordFailure"
                /\ Breaker.failureCount = Breaker.failureThreshold)
                => Breaker.status = "open"
    /\ (lastCall.op = "isCircuitOpen" /\ lastCall.pre.status = "open") =>
          IF Elapsed < lastCall.pre.recoveryTimeout
          THEN lastCall.result /\ Breaker.status = "open"
          ELSE ~lastCall.result /\ Breaker.status = "half-open"

\* C5: in HalfOpen the third recordSuccess in a row closes the breaker with
\* both counters zero, an earlier one only counts, and one recordFailure opens
\* it with successCount zero whatever the number of successes before it
C5_HalfOpenRecovery ==
    /\ Breaker.status = "half-open" =>
          (trial < SuccessQuota /\ Breaker.successCount = trial)
    /\ (lastCall.op = "recordSuccess" /\ lastCall.pre.status = "half-open") =>
          IF lastCall.trialBefore = SuccessQuota - 1
          THEN /\ Breaker.status = "closed"
               /\ Breaker.failureCount = 0
               /\ Breaker.successCount = 0
          ELSE /\ Breaker.status = "half-open"
               /\ Breaker.failureCount = lastCall.pre.failureCount
    /\ (lastCall.op = "recordFailure" /\ lastCall.pre.status = "half-open") =>
          /\ Breaker.status = "open"
          /\ Breaker.successCount = 0

C5_Witness ==
    /\ lastCall.op = "recordSuccess"
    /\ lastCall.pre.status = "half-open"
    /\ lastCall.trialBefore = SuccessQuota - 1
    /\ lastCall.pre.failureCount > 0
    /\ Breaker.status = "closed"

\* C21: isCircuitOpen returns true exactly when the breaker is Open and less
\* than recoveryTimeout has elapsed since the last failure; on an Open
\* breaker with recoveryTimeout elapsed (equality included) it returns false
\* and leaves the breaker HalfOpen with successCount 0; on a Closed or
\* HalfOpen breaker, or without a breaker, it returns false and changes
\* nothing.
C21_IsOpenExact ==
    lastCall.op = "isCircuitOpen" =>
       LET pre == lastCall.pre
           inWindow == pre.status = "open" /\ Elapsed < pre.recoveryTimeout
       IN  /\ lastCall.result <=> inWindow
           /\ IF pre.status = "open" /\ ~inWindow
              THEN Breaker = [pre EXCEPT !.status = "half-open", !.successCount = 0]
              ELSE Breaker = pre

\* C22: in every reachable state of a breaker successCount is 0, 1 or 2 and
\* is above 0 only in HalfOpen; recordSuccess on a Closed or Open breaker
\* changes neither the status nor a counter.
C22_SuccessCountRange ==
    /\ Breaker.successCount \in 0..(SuccessQuota - 1)
    /\ Breaker.successCount > 0 => Breaker.status = "half-open"
    /\ (lastCall.op = "recordSuccess" /\ lastCall.pre.status \in {"closed", "open"}) =>
          /\ Breaker.status = lastCall.pre.status
          /\ Breaker.failureCount = lastCall.pre.failureCount
          /\ Breaker.successCount = lastCall.pre.successCount

C22_Witness ==
    /\ lastCall.op = "recordFailure"
    /\ lastCall.pre.status = "half-open"
    /\ lastCall.pre.successCount = SuccessQuota - 1
    /\ Breaker.status = "open"
    /\ Breaker.successCount = 0

---------------------------------------------------------------------------
(* Claims on the backoff calculator (BackoffSpec) *)

\* calculateDelay has just returned under a policy with or without jitter
DelayCalculated(jitter) ==
    /\ lastCall.op = "calculateDelay"
    /\ call.config.jitter = jitter

\* the policy's backoffFactor is greater than one
FactorAboveOne == call.config.backoffFactor > FactorDen(call.config)

\* baseDelay * backoffFactor^(n-1) of the attempt just calculated, as a
\* fraction
U == Uncapped(call.attempt, call.config)

\* the uncapped value reaches maxDelay
CapReached == U.num >= call.config.maxDelay * U.den

\* delay(n) >= delay(n-1), and delay(n) = maxDelay once the uncapped value
\* reaches maxDelay
MonotoneThenCapped ==
    /\ call.attempt >= 2 => call.delay >= lastCall.previous
    /\ CapReached => call.delay = call.config.maxDelay

\* C14 as the claim states it: the delay is exactly the capped power
C14_AsStated ==
    (DelayCalculated(FALSE) /\ FactorAboveOne) =>
       /\ IF CapReached THEN call.delay = call.config.maxDelay
                        ELSE call.delay * U.den = U.num
       /\ MonotoneThenCapped

\* C14: with jitter disabled and backoffFactor > 1, calculateDelay(n) is
\* min(baseDelay * backoffFactor^(n-1), maxDelay) rounded down to a whole
\* number of milliseconds; delay(n) >= delay(n-1) for n >= 2, and delay(n) =
\* maxDelay from the first attempt whose uncapped value reaches maxDelay.
C14_BackoffMonotone ==
    (DelayCalculated(FALSE) /\ FactorAboveOne) =>
       /\ IF CapReached THEN call.delay = call.config.maxDelay
                        ELSE call.delay = U.num \div U.den
       /\ MonotoneThenCapped

C14_Witness ==
    /\ DelayCalculated(FALSE)
    /\ FactorAboveOne
    /\ call.attempt >= 2
    /\ Uncapped(call.attempt - 1, call.config).num >
          call.config.maxDelay * Uncapped(call.attempt - 1, call.config).den
    /\ call.delay = call.config.maxDelay

\* C15: with jitter enabled, calculateDelay(n) lies between 0.75*u and
\* 1.25*u, both clamped to [0, maxDelay], for u = baseDelay *
\* backoffFactor^(n-1): it is never negative and never above maxDelay.
C15_JitterBounds ==
    DelayCalculated(TRUE) =>
       /\ call.delay >= 0
       /\ call.delay <= call.config.maxDelay
       /\ IF 3 * U.num <= call.config.maxDelay * 4 * U.den
          THEN call.delay * 4 * U.den >= 3 * U.num
          ELSE call.delay >= call.config.maxDelay
       /\ IF 5 * U.num <= call.config.maxDelay * 4 * U.den
          THEN call.delay * 4 * U.den <= 5 * U.num
          ELSE call.delay <= call.config.maxDelay

---------------------------------------------------------------------------
(* Claims on the dead letter queue (DLQSpec) *)

\* the messages admitted with currentRetryCount >= maxRetries of the merged
\* config
PermanentAdmissions ==
    { id \in DOMAIN admissions :
         admissions[id].retryCount >= admissions[id].maxRetries }

\* how many times a value was pushed onto a list
Occurrences(list, value) == Cardinality({ i \in 1..Len(list) : list[i] = value })

\* how many times the scheduler (or retryMessage) pushed a message's payload
PublishedBy(pub, path, id) ==
    IF <<path, id>> \in DOMAIN pub THEN pub[<<path, id>>] ELSE 0

\* the operation lastOp tells of has just completed: nothing has started since
JustCompleted(op) ==
    /\ lastOp.op = op
    /\ lastOp.nth = ops
    /\ Quiet

AdmissionReturned == JustCompleted("addToDLQ") /\ lastOp.outcome = "returned"

\* C6: an addToDLQ call with currentRetryCount >= maxRetries of the merged
\* config, once it has returned, has stored the message in the permanent
\* partition without a nextRetryAt; no retry-schedule pointer is ever written
\* for such a message, and no scheduler scan ever pushes its payload onto the
\* origin queue.
C6_PermanentTransition ==
    /\ (AdmissionReturned /\ lastOp.id \in PermanentAdmissions) =>
          LET k == PermanentKey(lastOp.queue, lastOp.id)
          IN  /\ k \in DOMAIN store
              /\ store[k].data.id = lastOp.id
              /\ store[k].data.nextRetryAt[1] = "undefined"
    /\ \A id \in PermanentAdmissions :
          /\ RetryKey(admissions[id].queue, id) \notin DOMAIN store
          /\ PublishedBy(published, "scheduler", id) = 0

ScanReturned == JustCompleted("processRetryQueue") /\ lastOp.outcome = "returned"

\* a scan has run, an interval after a message became permanent
C6_Witness ==
    /\ ScanReturned
    /\ ~lastOp.faulted
    /\ \E id \in PermanentAdmissions :
          /\ PermanentKey(admissions[id].queue, id) \in DOMAIN lastOp.pre.store
          /\ store[PermanentKey(admissions[id].queue, id)].data.failedAt[2] < lastOp.at

\* the retry-schedule pointers of a store
Pointers(st) == Keys(st, RetryPattern)

\* nextRetryAt <= now, for the pointer under key k of store st at time t
PointerDue(st, k, t) ==
    /\ st[k].data.nextRetryAt[1] = "iso"
    /\ st[k].data.nextRetryAt[2] <= t

\* the key of the active record of the pointer under key k
RecordKey(st, k) == ActiveKey(st[k].data.queue, st[k].data.messageId)

\* the payload of the pointer's message was pushed n times onto its origin
\* queue, and not at all onto another queue, since the operation started
PushedSince(pre, id, n) ==
    \A q \in Queues :
       Occurrences(originQueues[q], admissions[id].payload)
          = Occurrences(pre.originQueues[q], admissions[id].payload)
            + (IF q = admissions[id].queue THEN n ELSE 0)

\* C7: after one processRetryQueue run in which no store command failed, for
\* every retry-schedule pointer with nextRetryAt <= now whose active record
\* existed, the payload was pushed onto the record's origin queue exactly
\* once, the stored retryCount is one more than before and the pointer is
\* gone; every pointer with nextRetryAt > now is still in place, unchanged,
\* and its payload was not pushed.
C7_SchedulerRedelivery ==
    (ScanReturned /\ ~lastOp.faulted) =>
       \A k \in Pointers(lastOp.pre.store) :
          LET pre == lastOp.pre
              id == pre.store[k].data.messageId
              rk == RecordKey(pre.store, k)
          IN  IF PointerDue(pre.store, k, lastOp.at)
              THEN rk \in DOMAIN pre.store =>
                      /\ PushedSince(pre, id, 1)
                      /\ rk \in DOMAIN store
                      /\ store[rk].data.retryCount = pre.store[rk].data.retryCount + 1
                      /\ k \notin DOMAIN store
              ELSE /\ k \in DOMAIN store
                   /\ store[k] = pre.store[k]
                   /\ PushedSince(pre, id, 0)

\* a scan met a due pointer with its record and a pointer not yet due
C7_Witness ==
    /\ ScanReturned
    /\ ~lastOp.faulted
    /\ \E k \in Pointers(lastOp.pre.store) :
          /\ PointerDue(lastOp.pre.store, k, lastOp.at)
          /\ RecordKey(lastOp.pre.store, k) \in DOMAIN lastOp.pre.store
    /\ \E k \in Pointers(lastOp.pre.store) :
          ~PointerDue(lastOp.pre.store, k, lastOp.at)

\* the number of permanent records of a queue
PermanentCount(st, queue) ==
    Cardinality(Keys(st, <<"dlq", "permanent", queue, "*">>))

ThresholdEvents(ev, queue) == ev[<<"dlq.threshold.exceeded", queue>>]

\* C8: a permanent admission emits dlq.threshold.exceeded exactly once when
\* it takes the number of permanent records of its queue from below the
\* queue's alertThreshold to the threshold, and does not emit it when the
\* number was at or above the threshold already.
C8_AlertOncePerCrossing ==
    (AdmissionReturned /\ lastOp.id \in PermanentAdmissions) =>
       LET A == AlertConfig(configs, lastOp.queue).alertThreshold
           before == PermanentCount(lastOp.pre.store, lastOp.queue)
           after == PermanentCount(store, lastOp.queue)
           emitted == ThresholdEvents(events, lastOp.queue)
                         - ThresholdEvents(lastOp.pre.events, lastOp.queue)
       IN  emitted = IF before < A /\ after >= A THEN 1 ELSE 0

\* C9: addToDLQ, retryMessage and deleteMessage never throw, whatever store
\* command fails.
C9_StoreFailureCaught ==
    \A op \in {"addToDLQ", "retryMessage", "deleteMessage"} :
       JustCompleted(op) => lastOp.outcome # "threw"

\* what retryMessage has done when it has returned: nothing and false
\* without a record; with a record, the payload pushed once, the retryCount
\* one more, the record re-persisted, the event emitted and true
ManualRetryEffect ==
    LET pre == lastOp.pre
        k == ActiveKey(lastOp.queue, lastOp.id)
        manual == <<"dlq.message.manual_retry", lastOp.queue>>
    IN  IF k \notin DOMAIN pre.store
        THEN /\ lastOp.result = FALSE
             /\ originQueues = pre.originQueues
             /\ store = pre.store
             /\ events = pre.events
        ELSE /\ lastOp.result = TRUE
             /\ PushedSince(pre, lastOp.id, 1)
             /\ originQueues[lastOp.queue] =
                   <<StringifyPayload(pre.store[k].data.message)>>
                      \o pre.originQueues[lastOp.queue]
             /\ k \in DOMAIN store
             /\ store[k].data =
                   [pre.store[k].data EXCEPT !.retryCount = @ + 1]
             /\ [x \in DOMAIN store \ {k} |-> store[x]]
                   = [x \in DOMAIN pre.store \ {k} |-> pre.store[x]]
             /\ events[manual] = pre.events[manual] + 1

KeysOf(queue, id) ==
    { ActiveKey(queue, id), PermanentKey(queue, id), RetryKey(queue, id) }

\* C11: after a deleteMessage(queue, id) call during which no store command
\* failed, the store holds neither the active record, nor the permanent
\* record, nor the retry-schedule pointer of (queue, id), and the call
\* returned true exactly when one of the three existed before it.
C11_HardDelete ==
    (JustCompleted("deleteMessage") /\ ~lastOp.faulted) =>
       /\ KeysOf(lastOp.queue, lastOp.id) \cap DOMAIN store = {}
       /\ lastOp.result <=>
             (KeysOf(lastOp.queue, lastOp.id) \cap DOMAIN lastOp.pre.store # {})

\* the numbers of records the store holds for a queue, by partition
ActiveCount(st, queue) ==
    Cardinality({ k \in DOMAIN st : Len(k) = 3 /\ k[2] = queue })

PointerCount(st, queue) ==
    Cardinality({ k \in Pointers(st) : k[2] = queue })

StatsReturned == JustCompleted("getDLQStats") /\ lastOp.outcome = "returned"

\* what byQueue holds for a queue: zeros when the queue has no entry
ByQueue(stats, queue) ==
    IF \E e \in stats.byQueue : e.queue = queue
    THEN CHOOSE e \in stats.byQueue : e.queue = queue
    ELSE [queue |-> queue, total |-> 0, permanent |-> 0, retry |-> 0]

\* C12: getDLQStats(q) returns permanent = the number of permanent records
\* of q and retryScheduled = the number of retry-schedule pointers of q; the
\* unscoped getDLQStats() counts every record, permanent ones included, in
\* byQueue under the record's own queue, so that byQueue has entries for
\* queues only and they add up to the global counts.
C12_StatsCounts ==
    StatsReturned =>
       LET stats == lastOp.result
       IN  IF lastOp.queue # AllQueues
           THEN /\ stats.permanent = PermanentCount(store, lastOp.queue)
                /\ stats.retryScheduled = PointerCount(store, lastOp.queue)
           ELSE /\ \A e \in stats.byQueue : e.queue \in Queues
                /\ \A q \in Queues :
                      /\ ByQueue(stats, q).permanent = PermanentCount(store, q)
                      /\ ByQueue(stats, q).retry = PointerCount(store, q)
                      /\ ByQueue(stats, q).total = ActiveCount(store, q)

\* the run s of the scheduler is between the lpush of executeRetry and its
\* return, the lpush having been accepted
ScanPushed(s) ==
    \/ spc[s] = "lpush" /\ scan[s].res.ok
    \/ spc[s] = "setex"

\* the retryMessage call in progress has made its lpush, which was accepted
ManualPushed ==
    \/ mpc = "lpush" /\ man.res.ok
    \/ mpc = "setex"

\* C13: while a scheduler re-delivery and a manual retryMessage call of the
\* same (queue, id) are both in progress, at most one of them has pushed the
\* payload onto the origin queue.
C13_SinglePublishOnOverlap ==
    \A s \in Scanners :
       ~ /\ ScanPushed(s)
         /\ ManualPushed
         /\ scan[s].retryInfo.queue = man.queue
         /\ scan[s].retryInfo.messageId = man.id

\* the messages whose record was stored, with a nextRetryAt that has come at
\* time t, when the operation that has just ended began
DueBefore(t) ==
    { id \in DOMAIN admissions :
         LET k == ActiveKey(admissions[id].queue, id)
         IN  /\ k \in DOMAIN lastOp.pre.store
             /\ admissions[id].retryCount < admissions[id].maxRetries
             /\ lastOp.pre.store[k].data.nextRetryAt[1] = "iso"
             /\ lastOp.pre.store[k].data.nextRetryAt[2] <= t }

\* C16: when no store command has failed and no message was deleted, after
\* every scheduler scan made at or after the nextRetryAt of a message admitted
\* with currentRetryCount < maxRetries, whatever its config, the scheduler
\* has pushed the message onto its origin queue: the retry-schedule pointer
\* was still there for the first such scan.
C16_ScheduledRedelivery ==
    (ScanReturned /\ faults = 0) =>
       \A id \in DueBefore(lastOp.at) :
          PublishedBy(published, "scheduler", id) >= 1

\* a DLQ operation has just been completed, no store command having failed
\* so far
OperationCompleted ==
    /\ Quiet
    /\ lastOp.nth = ops
    /\ lastOp.op \in {"addToDLQ", "processRetryQueue", "retryMessage", "deleteMessage"}
    /\ faults = 0

\* C19: after every completed DLQ operation no message has a record in the
\* active partition and one in the permanent partition; after addToDLQ with
\* currentRetryCount >= maxRetries the message has no active record.
C19_OnePartitionPerMessage ==
    OperationCompleted =>
       \A id \in DOMAIN admissions :
          ~ /\ ActiveKey(admissions[id].queue, id) \in DOMAIN store
            /\ PermanentKey(admissions[id].queue, id) \in DOMAIN store

\* C20: after every completed operation, every stored record whose
\* retryCount has reached its maxRetries, be it by the admission, a scheduled
\* re-delivery or a manual retry, has a record in the permanent partition.
C20_ExhaustedIsPermanent ==
    OperationCompleted =>
       \A id \in DOMAIN admissions :
          LET k == ActiveKey(admissions[id].queue, id)
          IN  (k \in DOMAIN store /\ store[k].data.retryCount >= store[k].data.maxRetries)
                 => PermanentKey(admissions[id].queue, id) \in DOMAIN store

\* the number of times the payload of a message was pushed onto a queue
Pushes(id) ==
    PublishedBy(published, "scheduler", id) + PublishedBy(published, "manual", id)

\* C23: while no call is in progress and no store command has failed, the
\* stored record of every message has the retryCount given at its admission
\* plus the number of times its payload was pushed onto the origin queue,
\* in whatever order the steps of the scheduler and of retryMessage ran.
C23_NoLostUpdate ==
    (Quiet /\ faults = 0) =>
       \A id \in DOMAIN admissions :
          LET k == ActiveKey(admissions[id].queue, id)
          IN  k \in DOMAIN store =>
                 store[k].data.retryCount = admissions[id].retryCount + Pushes(id)

\* the config of an admission as the contract merges it: the overrides of
\* the call over the registered config of the queue over the defaults
MergedConfig(id) ==
    Spread(Spread(defaultConfig, RegisteredConfig(configs, admissions[id].queue)),
           admissions[id].config)

\* C24: after an addToDLQ call has returned, every policy value it applied is
\* the one of the merged config: the message is permanent exactly when its
\* retry count has reached maxRetries, its nextRetryAt follows the backoff
\* parameters, the TTL of its active record and of its permanent record is
\* retentionPeriod, and the threshold event was emitted exactly when the
\* number of permanent records had reached alertThreshold.
C24_MergedConfigApplied ==
    AdmissionReturned =>
       LET id == lastOp.id
           q == lastOp.queue
           M == MergedConfig(id)
           permanent == admissions[id].retryCount >= M.maxRetries
           ak == ActiveKey(q, id)
           pk == PermanentKey(q, id)
           ttl == RetentionSeconds(M) * 1000
       IN  /\ permanent <=> pk \in DOMAIN store
           /\ ak \in DOMAIN store
           /\ store[ak].expireAt = lastOp.at + ttl
           /\ ~permanent =>
                 \E r \in RetryDraws :
                    store[ak].data.nextRetryAt =
                       DateToJSON(calculateNextRetryTime(admissions[id].retryCount,
                                                         M, r, lastOp.at))
           /\ permanent =>
                 /\ pk \in DOMAIN store => store[pk].expireAt = lastOp.at + ttl
                 /\ (ThresholdEvents(events, q) > ThresholdEvents(lastOp.pre.events, q))
                       <=> (PermanentCount(store, q) >= M.alertThreshold)

\* the pointers of store st that are due at time t and whose record is stored
DueWithRecord(st, t) ==
    { k \in Pointers(st) : PointerDue(st, k, t) /\ RecordKey(st, k) \in DOMAIN st }

\* the re-delivery of the pointer under key k was carried out in the scan
\* that has just ended: payload pushed once, retryCount one more, pointer gone
Redelivered(k) ==
    LET pre == lastOp.pre
        rk == RecordKey(pre.store, k)
    IN  /\ PushedSince(pre, pre.store[k].data.messageId, 1)
        /\ rk \in DOMAIN store
        /\ store[rk].data.retryCount = pre.store[rk].data.retryCount + 1
        /\ k \notin DOMAIN store

\* the due pointers the scan that has just ended did not re-deliver in full
NotRedelivered ==
    { k \in DueWithRecord(lastOp.pre.store, lastOp.at) : ~Redelivered(k) }

\* C25: a store command that fails while one pointer is processed does not
\* end the scan: the scan returns, every due pointer but those whose
\* processing met a failure is re-delivered in the same scan, and the
\* processing set is empty afterwards; a scan throws only when its first
\* command, the listing of the pointers, fails, and has done nothing then.
C25_ScanIsolatesFailures ==
    /\ ScanReturned =>
          /\ Cardinality(NotRedelivered) <= (IF lastOp.faulted THEN faults ELSE 0)
          /\ processing = {}
    /\ (JustCompleted("processRetryQueue") /\ lastOp.outcome = "rejected") =>
          /\ store = lastOp.pre.store
          /\ originQueues = lastOp.pre.originQueues
          /\ processing = {}

C25_Witness ==
    /\ ScanReturned
    /\ lastOp.faulted
    /\ NotRedelivered # {}
    /\ \E k \in DueWithRecord(lastOp.pre.store, lastOp.at) : Redelivered(k)

\* C26: once onModuleDestroy has completed, no scheduler scan and no cleanup
\* run starts or completes, and no payload is pushed onto an origin queue:
\* the last completed operation remains onModuleDestroy.
C26_TimersStoppedAtShutdown ==
    destroyed =>
       /\ \A s \in Scanners : spc[s] = "idle"
       /\ lastOp.op = "onModuleDestroy"
       /\ published = lastOp.pre.published
       /\ originQueues = lastOp.pre.originQueues

\* C27: calls made through RetryUtils.withCircuitBreaker with one operation
\* name share one breaker: once as many calls have failed as the
\* failureThreshold of the breaker, a call made before the recoveryTimeout
\* has elapsed does not invoke the operation.
C27_WrapperSharesBreaker ==
    pc = "running" =>
       LET state == circuitBreakers[call.name]
       IN  now < state.recoveryTimeout => spent < state.failureThreshold


\* C28: while the breaker is Closed, recordSuccess changes nothing in it
\* and recordFailure adds one to failureCount, which is therefore the number
\* of failures recorded since the breaker was created or last closed,
\* successes in between or not; the breaker opens at the failure that takes
\* failureCount to failureThreshold.
C28_FailuresAccumulate ==
    /\ (lastCall.op = "recordSuccess" /\ lastCall.pre.status = "closed") =>
          Breaker = lastCall.pre
    /\ (lastCall.op = "recordFailure" /\ lastCall.pre.status = "closed") =>
          /\ Breaker.failureCount = lastCall.pre.failureCount + 1
          /\ Breaker.status = "open"
                <=> Breaker.failureCount >= lastCall.pre.failureThreshold
    /\ (Breaker.status = "closed" /\ opName \notin thrChanged) =>
          Breaker.failureCount < Breaker.failureThreshold

C28_Witness ==
    /\ lastCall.op = "recordSuccess"
    /\ lastCall.pre.status = "closed"
    /\ lastCall.pre.failureThreshold = DefaultFailureThreshold
    /\ lastCall.pre.failureCount = DefaultFailureThreshold - 1
    /\ Breaker.failureCount = DefaultFailureThreshold - 1
    /\ opName \notin thrChanged


\* C29: while no store command has failed, the scheduler runs, overlapping
\* or not, push the payload of a retry-schedule pointer onto its origin
\* queue at most once, and `processing` is empty whenever no run of
\* processRetryQueue is in progress.
C29_OverlappingScansPushOnce ==
    /\ faults = 0 =>
          \A id \in DOMAIN admissions : PublishedBy(published, "scheduler", id) <= 1
    /\ (\A s \in Scanners : spc[s] = "idle") => processing = {}

\* one run has pushed the payload of a pointer and still holds its key,
\* while the other run has listed the same pointer
C29_Witness ==
    /\ faults = 0
    /\ \E s \in Scanners : \E t \in Scanners \ {s} :
          /\ spc[s] \in {"lpush", "setex", "delPointer"}
          /\ scan[s].key \in processing
          /\ PublishedBy(published, "scheduler", scan[s].retryInfo.messageId) = 1
          /\ spc[t] = "keys"
          /\ scan[t].res.ok
          /\ scan[s].key \in scan[t].res.value


\* C30: a scan that has ended has deleted a retry-schedule pointer only if it
\* pushed the payload of the pointer's message onto the origin queue: a
\* pointer whose record could not be loaded, or whose payload could not be
\* pushed, is still in the store afterwards.
C30_PointerKeptUnlessPushed ==
    ScanReturned =>
       \A k \in Pointers(lastOp.pre.store) :
          k \notin DOMAIN store =>
             PushedSince(lastOp.pre, lastOp.pre.store[k].data.messageId, 1)

===========================================================================
